---- MODULE Spec2Model ----
(***************************************************************************)
(* Model of the review execution pipeline of browser-review-tool           *)
(* (src/src/index.mjs): runReview with its capture loop, transcoder        *)
(* adapter, description cache, AI generation pass and report, and main's   *)
(* error boundary.                                                         *)
(*                                                                         *)
(* File names are sequences of tokens (strings), so that the substring     *)
(* tests and the name-building expressions of the code are computed, not   *)
(* assumed.  The directory of a run is one token sequence too.             *)
(***************************************************************************)
EXTENDS Integers, Sequences, FiniteSets, TLC

\* ------------------------------------------------------------------ bounds
MaxSteps == 2
MaxActions == 2

\* ------------------------------------------------------- generic helpers
Range(s) == {s[i] : i \in DOMAIN s}

SeqsUpTo(S, n) == UNION {[1..k -> S] : k \in 0..n}

Contains(p, tok) == \E i \in DOMAIN p : p[i] = tok

SelectIdx(s, Test(_)) == {i \in DOMAIN s : Test(s[i])}

NullText == "null"

\* ------------------------------------------------------------ input pools
\* Names are token sequences; " " is whitespace, capitals are distinct tokens.
StepNames == {<<"Home">>, <<"home", " ", "cart">>}

ShotNames == {<<>>, <<"hero", "-slide-", "1">>}

Shot(n) == [type |-> "screenshot", name |-> n]

\* "hover" stands for a type tag that no case of the action switch names
ActionPool ==
    {Shot(n) : n \in ShotNames}
    \cup {[type |-> t, name |-> <<>>] : t \in {"click", "hover"}}

OutputDirs == {<<"out">>}

VideoFormats == {"slideshow", "webm", "gif"}

TopUrls == {NullText, "https://ex.test/"}

\* ---------------------------------------------------------------- naming
\* String.prototype.toLowerCase and /\s+/g -> '-' on one token
LowerTok(t) ==
    CASE t = "Home" -> "home"
      [] t = " " -> "-"
      [] OTHER -> t

\* step.name.replace(/\s+/g, '-').toLowerCase()
StepFileName(name) == [i \in DOMAIN name |-> LowerTok(name[i])]

\* path.join(config.outputDir, 'artifacts')
ArtifactsDir(cfg) == cfg.outputDir \o <<"/artifacts/">>

\* String(n).padStart(3, '0')
PadStart3(n) ==
    CASE n = 0 -> "000" [] n = 1 -> "001" [] n = 2 -> "002" [] n = 3 -> "003"
      [] n = 4 -> "004" [] n = 5 -> "005" [] n = 6 -> "006" [] OTHER -> "007"

\* path.join(artifactsDir, `${action.name || 'screenshot'}.png`)
ScreenshotPath(cfg, action) ==
    ArtifactsDir(cfg)
      \o (IF action.name = <<>> THEN <<"screenshot">> ELSE action.name)
      \o <<".png">>

\* action.name || 'Screenshot'
ScreenshotName(action) == IF action.name = <<>> THEN <<"Screenshot">> ELSE action.name

\* path.join(artifactsDir, `${stepName}-slide-${String(i).padStart(3, '0')}.png`)
SlidePath(cfg, step, i) ==
    ArtifactsDir(cfg) \o StepFileName(step.name) \o <<"-slide-", PadStart3(i), ".png">>

\* path.join(artifactsDir, `${stepName}-slideshow.webm`)
SlideshowPath(cfg, step) ==
    ArtifactsDir(cfg) \o StepFileName(step.name) \o <<"-slideshow", ".webm">>

\* path.join(artifactsDir, `${stepName}.gif`)
GifPath(cfg, step) == ArtifactsDir(cfg) \o StepFileName(step.name) \o <<".gif">>

\* Names the browser gives to its recordings: fresh random names; their
\* position in VideoToks is their rank under Array.prototype.sort().
VideoToks == <<"v1", "v2", "v3", "v4", "v5">>

VideoNames == {VideoToks[i] : i \in 1..(MaxSteps + 1)}

VideoFile(cfg, tok) == ArtifactsDir(cfg) \o <<tok, ".webm">>

IsWebm(p) == Len(p) > 0 /\ p[Len(p)] = ".webm"

\* rank of a file name under the default (code unit) sort of readdir's names
SortRank(p) ==
    IF \E i \in DOMAIN VideoToks : Contains(p, VideoToks[i])
    THEN CHOOSE i \in DOMAIN VideoToks : Contains(p, VideoToks[i])
    ELSE 0

\* videoFiles.filter(f => f.endsWith('.webm')).sort().pop()
LatestVideo(fs) ==
    LET webm == {p \in fs : IsWebm(p)}
    IN  IF webm = {} THEN <<>>
        ELSE CHOOSE p \in webm : \A q \in webm : SortRank(q) <= SortRank(p)

Artifact(type, name, path, stepIndex, stepName, frameCount) ==
    [type |-> type, name |-> name, path |-> path, stepIndex |-> stepIndex,
     stepName |-> stepName, frameCount |-> frameCount]


\* Mutant of ConvertVideoToGif: a failed ffmpeg pass goes unnoticed.
ConvertVideoToGifBlind(hasFFmpeg, paletteOk, gifOk) == hasFFmpeg

\* checkFFmpeg() && the two ffmpeg passes of convertVideoToGif
ConvertVideoToGif(hasFFmpeg, paletteOk, gifOk) == hasFFmpeg /\ paletteOk /\ gifOk

\* gifPath.replace('.gif', '-palette.png')
PalettePath(gifPath) ==
    [i \in 1..(Len(gifPath) - 1) |-> gifPath[i]] \o <<"-palette", ".png">>

\* createSlideshowFromScreenshots: false without ffmpeg, without frames, or on error
CreateSlideshowFromScreenshots(hasFFmpeg, screenshotPaths, execOk) ==
    hasFFmpeg /\ Len(screenshotPaths) # 0 /\ execOk

\* path.join(outputDir, 'slideshow-concat.txt')
ConcatFilePath(cfg) == ArtifactsDir(cfg) \o <<"slideshow-concat", ".txt">>

\* why a transcoder operation did not do all its work: ffmpeg is absent, the
\* duration probe gave nothing, or a subprocess or file operation failed
Cause(hasFFmpeg, probed, allOk) ==
    IF ~hasFFmpeg THEN "absent"
    ELSE IF ~probed THEN "noDuration"
    ELSE IF ~allOk THEN "failed"
    ELSE "none"

\* one call of convertVideoToGif, createSlideshowFromScreenshots or
\* extractVideoFrames: what it met and what it returned
Transcode(op, cause, success, frames) ==
    [op |-> op, cause |-> cause, success |-> success, frames |-> frames]

NoTranscode == Transcode("none", "none", FALSE, 0)

\* ----------------------------------------------------------------- state
VARIABLES
    config,        \* the ReviewConfig handed to runReview
    pc,            \* position of runReview / main
    error,         \* the exception in flight or thrown ("none" when there is none)
    browser,       \* "none" | "open" | "closed"
    browserCloses, \* number of browser.close() calls
    mainVideo,     \* name of the main context's recording ("none" without recordVideo)
    videoContext,  \* the step's recording context: "none" | "open" | "closed"
    stepIndex,     \* loop variable of the step loop (0-based, as in the code)
    actionIndex,   \* position in step.actions (1-based)
    artifacts,     \* the artifacts array
    files,         \* files present below the output directory
    slideshowScreenshots, \* frame paths of the current slideshow step
    slideIndex,    \* number of the next auto-captured frame
    videoPath,     \* the step's videoPath variable (<<>> for null)
    log,           \* history: what was executed, in execution order
    exitCode,      \* main's completion status: "running" | "0" | "1"
    apiKey,        \* environment: "none" | "direct" | "gateway"
    cacheFile,     \* <outputDir>/config.json
    cacheAtStart,  \* history: the cache file as the run found it
    extractIndex,  \* position in artifacts of the frame-extraction loop (1-based)
    extractedFrames, \* the extractedFrames array
    descriptions,  \* the description bundle (NoDescriptions for null)
    genIndex,      \* loop variable of the generation pass (0-based)
    genCalls,      \* calls made to the generation service (generateText)
    genLog,        \* history: one record per generateAIDescription invocation
    cacheLoads,    \* calls of loadCachedDescriptions
    cacheWrites,   \* successful writes of the cache file
    report,        \* what generateHTMLReport was given, once it has run
    lastTranscode, \* history: the latest call of a transcoder operation
    call           \* the latest direct call of a function of the module, with its result

vars ==
    <<config, pc, error, browser, browserCloses, mainVideo, videoContext, stepIndex,
      actionIndex, artifacts, files, slideshowScreenshots, slideIndex, videoPath, log,
      exitCode, apiKey, cacheFile, cacheAtStart, extractIndex, extractedFrames,
      descriptions, genIndex, genCalls, genLog, cacheLoads, cacheWrites, report,
      lastTranscode, call>>

\* the state of a run of runReview
runVars ==
    <<config, pc, error, browser, browserCloses, mainVideo, videoContext, stepIndex,
      actionIndex, artifacts, files, slideshowScreenshots, slideIndex, videoPath, log,
      exitCode, apiKey, cacheFile, cacheAtStart, extractIndex, extractedFrames,
      descriptions, genIndex, genCalls, genLog, cacheLoads, cacheWrites, report,
      lastTranscode>>

NoCall == [fn |-> "none"]

aiVars ==
    <<apiKey, cacheFile, cacheAtStart, extractIndex, extractedFrames, descriptions, genIndex,
      genCalls, genLog, cacheLoads, cacheWrites, report>>

Step == config.steps[stepIndex + 1]

Event(k, s, a) == [k |-> k, s |-> s, a |-> a]

\* Mutant of Raise: the exception is caught and the loop goes on.
RaiseSwallowed(kind) == /\ error' = kind
                        /\ pc' = pc

\* an exception inside the try block of lines 1027-1348: control goes to finally
Raise(kind) == /\ error' = kind
               /\ pc' = "finally"


\* the recording strategy chosen at lines 1084-1088 / 1303
Mode(cfg, step) ==
    IF ~step.record THEN "plain"
    ELSE IF cfg.videoFormat = "slideshow" THEN "slideshow" ELSE "video"

\* the case labels of the three action switches
RecognisedTypes == {"screenshot", "click", "type", "wait", "navigate"}

\* the cases whose body calls the page and can therefore raise
RaisingTypes == {"screenshot", "click", "type", "navigate"}

\* ------------------------------------------------- runReview: capture phase
\* chromium.launch (lines 1013-1025); a failure is rethrown by the outer catch
Launch ==
    /\ UNCHANGED <<lastTranscode, call>>
    /\ pc = "launch"
    /\ UNCHANGED videoPath
    /\ \E ok \in BOOLEAN :
         IF ok
         THEN /\ browser' = "open"
              /\ pc' = "newContext"
              /\ error' = error
         ELSE /\ browser' = browser
              /\ pc' = "thrown"
              /\ error' = "launch"
    /\ UNCHANGED <<config, browserCloses, mainVideo, videoContext, stepIndex, actionIndex,
                   artifacts, files, slideshowScreenshots, slideIndex, log, exitCode>>
    /\ UNCHANGED aiVars

\* browser.newContext + context.newPage (lines 1028-1039); with videoFormat
\* 'webm' the main context records too, into a file of a fresh random name
\* that may or may not be listed before the context is closed
NewContext ==
    /\ UNCHANGED <<lastTranscode, call>>
    /\ pc = "newContext"
    /\ UNCHANGED videoPath
    /\ \E ok \in BOOLEAN, visible \in BOOLEAN, tok \in VideoNames :
         IF ~ok
         THEN /\ Raise("newContext")
              /\ UNCHANGED <<mainVideo, files>>
         ELSE /\ pc' = "singleUrl"
              /\ error' = error
              /\ mainVideo' = IF config.videoFormat = "webm" THEN tok ELSE "none"
              /\ files' = IF config.videoFormat = "webm" /\ visible
                          THEN files \cup {VideoFile(config, tok)}
                          ELSE files
    /\ UNCHANGED <<config, browser, browserCloses, videoContext, stepIndex, actionIndex,
                   artifacts, slideshowScreenshots, slideIndex, log, exitCode>>
    /\ UNCHANGED aiVars

\* Mutant of PushArtifact: unshift instead of push.
PushArtifactFront(list, x) == <<x>> \o list

\* artifacts.push(x)
PushArtifact(list, x) == Append(list, x)

\* path.join(artifactsDir, 'review-screenshot.png')
ReviewScreenshotPath(cfg) == ArtifactsDir(cfg) \o <<"review-screenshot", ".png">>

\* Mutant of PageScreenshotArtifact: the page screenshot is filed under step 0.
PageScreenshotAsStep(cfg) ==
    Artifact("screenshot", <<"Page Screenshot">>, ReviewScreenshotPath(cfg), 0, <<>>, 0)

\* the record pushed for the single-URL screenshot (lines 1056-1063)
PageScreenshotArtifact(cfg) ==
    Artifact("screenshot", <<"Page Screenshot">>, ReviewScreenshotPath(cfg), -1, <<>>, 0)

\* if (config.url) { goto; screenshot; push } (lines 1041-1068)
SingleUrl ==
    /\ UNCHANGED <<lastTranscode, call>>
    /\ pc = "singleUrl"
    /\ UNCHANGED videoPath
    /\ IF config.url = NullText
       THEN /\ pc' = "stepLoop"
            /\ UNCHANGED <<error, artifacts, files>>
       ELSE \E fail \in {"none", "goto", "screenshot"} :
              IF fail # "none"
              THEN /\ Raise(fail)
                   /\ UNCHANGED <<artifacts, files>>
              ELSE /\ pc' = "stepLoop"
                   /\ error' = error
                   /\ files' = files \cup {ReviewScreenshotPath(config)}
                   /\ artifacts' = PushArtifact(artifacts, PageScreenshotArtifact(config))
    /\ UNCHANGED <<config, browser, browserCloses, mainVideo, videoContext, stepIndex,
                   actionIndex, slideshowScreenshots, slideIndex, log, exitCode>>
    /\ UNCHANGED aiVars

\* Head of one iteration of the step loop: the step's navigation (lines
\* 1076-1081) and the set-up of its recording strategy (slideshow: lines
\* 1089-1106; full video: lines 1190-1206)
StepBegin ==
    /\ UNCHANGED <<lastTranscode, call>>
    /\ pc = "stepLoop"
    /\ stepIndex < Len(config.steps)
    /\ LET mode == Mode(config, Step)
           fails == {"none"}
                    \cup (IF Step.url # NullText THEN {"stepNav"} ELSE {})
                    \cup (IF mode = "slideshow" THEN {"modeNav", "initShot"} ELSE {})
                    \cup (IF mode = "video" THEN {"newVideoContext", "modeNav"} ELSE {})
       IN  \E fail \in fails :
             /\ log' = Append(log, Event("begin", stepIndex, 0))
             /\ videoPath' = <<>>
             /\ IF fail # "none"
                THEN /\ Raise(fail)
                     /\ videoContext' = IF mode = "video" /\ fail = "modeNav"
                                        THEN "open" ELSE videoContext
                     /\ UNCHANGED <<actionIndex, files, slideshowScreenshots, slideIndex>>
                ELSE /\ pc' = "actions"
                     /\ error' = error
                     /\ actionIndex' = 1
                     /\ videoContext' = IF mode = "video" THEN "open" ELSE videoContext
                     /\ IF mode = "slideshow"
                        THEN /\ files' = files \cup {SlidePath(config, Step, 0)}
                             /\ slideshowScreenshots' = <<SlidePath(config, Step, 0)>>
                             /\ slideIndex' = 1
                        ELSE /\ files' = files
                             /\ slideshowScreenshots' = <<>>
                             /\ slideIndex' = 0
    /\ UNCHANGED <<config, browser, browserCloses, mainVideo, stepIndex, artifacts, exitCode>>
    /\ UNCHANGED aiVars


\* the artifact pushed by a screenshot action (lines 1116-1123, 1218-1225, 1311-1318)
ScreenshotArtifact(cfg, action, idx, step) ==
    Artifact("screenshot", ScreenshotName(action), ScreenshotPath(cfg, action),
             idx, step.name, 0)

\* Mutant of WithFrame: a frame is taken after screenshot actions only.
WithFrameOfScreenshot(shots, action, slidePath) ==
    IF action.type = "screenshot" THEN Append(shots, slidePath) ELSE shots

\* slideshowScreenshots.push(slidePath) after the switch (lines 1150-1155)
WithFrame(shots, action, slidePath) == Append(shots, slidePath)

\* One iteration of the action loop in slideshow mode (lines 1108-1156): the
\* switch, then the numbered frame taken after every action
SlideshowAction ==
    /\ UNCHANGED <<lastTranscode, call>>
    /\ pc = "actions"
    /\ UNCHANGED videoPath
    /\ actionIndex <= Len(Step.actions)
    /\ Mode(config, Step) = "slideshow"
    /\ LET action == Step.actions[actionIndex]
           isShot == action.type = "screenshot"
           ssPath == ScreenshotPath(config, action)
           slidePath == SlidePath(config, Step, slideIndex)
           files1 == IF isShot THEN files \cup {ssPath} ELSE files
           artifacts1 == IF isShot
                         THEN PushArtifact(artifacts,
                                  ScreenshotArtifact(config, action, stepIndex, Step))
                         ELSE artifacts
           shots1 == IF isShot THEN Append(slideshowScreenshots, ssPath)
                     ELSE slideshowScreenshots
           fails == {"none", "slide"}
                    \cup (IF action.type \in RaisingTypes THEN {"action"} ELSE {})
       IN  \E fail \in fails :
             /\ log' = Append(log, Event("action", stepIndex, actionIndex))
             /\ CASE fail = "action" ->
                       /\ Raise("action")
                       /\ UNCHANGED <<files, artifacts, slideshowScreenshots, slideIndex,
                                      actionIndex>>
                  [] fail = "slide" ->
                       /\ Raise("screenshot")
                       /\ files' = files1
                       /\ artifacts' = artifacts1
                       /\ slideshowScreenshots' = shots1
                       /\ slideIndex' = slideIndex + 1
                       /\ UNCHANGED actionIndex
                  [] OTHER ->
                       /\ files' = files1 \cup {slidePath}
                       /\ artifacts' = artifacts1
                       /\ slideshowScreenshots' = WithFrame(shots1, action, slidePath)
                       /\ slideIndex' = slideIndex + 1
                       /\ actionIndex' = actionIndex + 1
                       /\ UNCHANGED <<pc, error>>
    /\ UNCHANGED <<config, browser, browserCloses, mainVideo, videoContext, stepIndex,
                   exitCode>>
    /\ UNCHANGED aiVars

\* One iteration of the action loop on the recording page (lines 1210-1248)
VideoAction ==
    /\ UNCHANGED <<lastTranscode, call>>
    /\ pc = "actions"
    /\ UNCHANGED videoPath
    /\ actionIndex <= Len(Step.actions)
    /\ Mode(config, Step) = "video"
    /\ LET action == Step.actions[actionIndex]
           isShot == action.type = "screenshot"
           fails == {"none"} \cup (IF action.type \in RaisingTypes THEN {"action"} ELSE {})
       IN  \E fail \in fails :
             /\ log' = Append(log, Event("action", stepIndex, actionIndex))
             /\ IF fail = "action"
                THEN /\ Raise("action")
                     /\ UNCHANGED <<files, artifacts, actionIndex>>
                ELSE /\ files' = IF isShot THEN files \cup {ScreenshotPath(config, action)}
                                 ELSE files
                     /\ artifacts' = IF isShot
                                     THEN PushArtifact(artifacts,
                                            ScreenshotArtifact(config, action, stepIndex, Step))
                                     ELSE artifacts
                     /\ actionIndex' = actionIndex + 1
                     /\ UNCHANGED <<pc, error>>
    /\ UNCHANGED <<config, browser, browserCloses, mainVideo, videoContext, stepIndex,
                   slideshowScreenshots, slideIndex, exitCode>>
    /\ UNCHANGED aiVars

\* One iteration of the action loop without recording (lines 1306-1341)
PlainAction ==
    /\ UNCHANGED <<lastTranscode, call>>
    /\ pc = "actions"
    /\ UNCHANGED videoPath
    /\ actionIndex <= Len(Step.actions)
    /\ Mode(config, Step) = "plain"
    /\ LET action == Step.actions[actionIndex]
           isShot == action.type = "screenshot"
           fails == {"none"} \cup (IF action.type \in RaisingTypes THEN {"action"} ELSE {})
       IN  \E fail \in fails :
             /\ log' = Append(log, Event("action", stepIndex, actionIndex))
             /\ IF fail = "action"
                THEN /\ Raise("action")
                     /\ UNCHANGED <<files, artifacts, actionIndex>>
                ELSE /\ files' = IF isShot THEN files \cup {ScreenshotPath(config, action)}
                                 ELSE files
                     /\ artifacts' = IF isShot
                                     THEN PushArtifact(artifacts,
                                            ScreenshotArtifact(config, action, stepIndex, Step))
                                     ELSE artifacts
                     /\ actionIndex' = actionIndex + 1
                     /\ UNCHANGED <<pc, error>>
    /\ UNCHANGED <<config, browser, browserCloses, mainVideo, videoContext, stepIndex,
                   slideshowScreenshots, slideIndex, exitCode>>
    /\ UNCHANGED aiVars

\* Mutant of SlideCleanup: nothing is removed.
SlideCleanupNone(paths) == {}

\* the frames the slideshow cleanup removes (lines 1180-1184)
SlideCleanup(paths) == {p \in Range(paths) : Contains(p, "-slide-")}

\* End of a slideshow step (lines 1159-1187): assemble, push, purge the frames
SlideshowPost ==
    /\ UNCHANGED call
    /\ pc = "actions"
    /\ actionIndex > Len(Step.actions)
    /\ Mode(config, Step) = "slideshow"
    /\ \E hasFFmpeg \in BOOLEAN, execOk \in BOOLEAN :
         LET created == CreateSlideshowFromScreenshots(hasFFmpeg, slideshowScreenshots, execOk)
             slideshowPath == SlideshowPath(config, Step)
         IN  IF created
             THEN /\ videoPath' = slideshowPath
                  /\ artifacts' = PushArtifact(artifacts,
                        Artifact("slideshow", Step.name, slideshowPath, stepIndex,
                                 Step.name, Len(slideshowScreenshots)))
                  /\ files' = (files \cup {slideshowPath}) \ SlideCleanup(slideshowScreenshots)
                  /\ lastTranscode' = Transcode("slideshow", "none", created, 0)
             ELSE /\ videoPath' = videoPath
                  /\ lastTranscode' =
                       IF Len(slideshowScreenshots) = 0 THEN lastTranscode
                       ELSE Transcode("slideshow", Cause(hasFFmpeg, TRUE, execOk), created, 0)
                  /\ artifacts' = artifacts
                  /\ files' = IF hasFFmpeg /\ Len(slideshowScreenshots) # 0
                              THEN files \cup {ConcatFilePath(config)}
                              ELSE files
    /\ log' = Append(log, Event("post", stepIndex, 0))
    /\ stepIndex' = stepIndex + 1
    /\ pc' = "stepLoop"
    /\ UNCHANGED <<config, error, browser, browserCloses, mainVideo, videoContext,
                   actionIndex, slideshowScreenshots, slideIndex, exitCode>>
    /\ UNCHANGED aiVars

\* the artifact a full-video step ends with (lines 1264-1300): the GIF when
\* one was asked for and made, else the video
RecordingArtifact(cfg, step, idx, video, converted) ==
    IF cfg.videoFormat = "gif" /\ converted
    THEN Artifact("gif", step.name, GifPath(cfg, step), idx, step.name, 0)
    ELSE Artifact("video", step.name, video, idx, step.name, 0)

\* Mutant of ContextClose: the close is forgotten.
ContextCloseSkipped(ctx) == ctx

\* await videoContext.close() (line 1252)
ContextClose(ctx) == "closed"

\* End of a full-video step (lines 1251-1301): close the recording context,
\* pick the last .webm of the directory listing, convert it when GIF is asked
VideoPost ==
    /\ UNCHANGED call
    /\ pc = "actions"
    /\ actionIndex > Len(Step.actions)
    /\ Mode(config, Step) = "video"
    /\ \E tok \in VideoNames, readdirOk \in BOOLEAN,
          hasFFmpeg \in BOOLEAN, paletteOk \in BOOLEAN, gifOk \in BOOLEAN :
         /\ tok # mainVideo
         /\ VideoFile(config, tok) \notin files
         /\ LET files1 == files \cup {VideoFile(config, tok)}
                latestVideo == LatestVideo(files1)
                gifPath == GifPath(config, Step)
                converted == ConvertVideoToGif(hasFFmpeg, paletteOk, gifOk)
            IN  /\ videoContext' = ContextClose(videoContext)
                /\ log' = Append(log, Event("post", stepIndex, 0))
                /\ IF ~readdirOk
                   THEN /\ Raise("readdir")
                        /\ files' = files1
                        /\ UNCHANGED <<artifacts, stepIndex, videoPath, lastTranscode>>
                   ELSE /\ stepIndex' = stepIndex + 1
                        /\ pc' = "stepLoop"
                        /\ error' = error
                        /\ videoPath' = latestVideo
                        /\ lastTranscode' =
                             IF latestVideo = <<>> \/ config.videoFormat # "gif"
                             THEN lastTranscode
                             ELSE Transcode("gif", Cause(hasFFmpeg, TRUE, paletteOk /\ gifOk),
                                            converted, 0)
                        /\ IF latestVideo = <<>>
                           THEN UNCHANGED <<artifacts, files>>
                           ELSE /\ artifacts' = PushArtifact(artifacts,
                                      RecordingArtifact(config, Step, stepIndex,
                                                        latestVideo, converted))
                                /\ files' =
                                     IF config.videoFormat # "gif" THEN files1
                                     ELSE IF converted
                                     THEN ((files1 \cup {gifPath}) \ {PalettePath(gifPath)})
                                             \ {latestVideo}
                                     ELSE IF hasFFmpeg /\ paletteOk
                                     THEN files1 \cup {PalettePath(gifPath)}
                                     ELSE files1
    /\ UNCHANGED <<config, browser, browserCloses, mainVideo, actionIndex,
                   slideshowScreenshots, slideIndex, exitCode>>
    /\ UNCHANGED aiVars

\* End of a step without recording (line 1343): next iteration
PlainPost ==
    /\ UNCHANGED <<lastTranscode, call>>
    /\ pc = "actions"
    /\ UNCHANGED videoPath
    /\ actionIndex > Len(Step.actions)
    /\ Mode(config, Step) = "plain"
    /\ log' = Append(log, Event("post", stepIndex, 0))
    /\ stepIndex' = stepIndex + 1
    /\ pc' = "stepLoop"
    /\ UNCHANGED <<config, error, browser, browserCloses, mainVideo, videoContext,
                   actionIndex, artifacts, files, slideshowScreenshots, slideIndex, exitCode>>
    /\ UNCHANGED aiVars

\* Loop exit and context.close() (line 1347); closing saves the main recording
CloseContext ==
    /\ UNCHANGED <<lastTranscode, call>>
    /\ pc = "stepLoop"
    /\ UNCHANGED videoPath
    /\ stepIndex >= Len(config.steps)
    /\ \E ok \in BOOLEAN :
         IF ok
         THEN /\ pc' = "finally"
              /\ error' = error
              /\ files' = IF mainVideo # "none"
                          THEN files \cup {VideoFile(config, mainVideo)} ELSE files
         ELSE /\ Raise("contextClose")
              /\ files' = files
    /\ UNCHANGED <<config, browser, browserCloses, mainVideo, videoContext, stepIndex,
                   actionIndex, artifacts, slideshowScreenshots, slideIndex, log, exitCode>>
    /\ UNCHANGED aiVars

\* Mutant of BrowserClose: the close is forgotten.
BrowserCloseSkipped(b) == b

\* if (browser) await browser.close()
BrowserClose(b) == IF b # "none" THEN "closed" ELSE b

\* Mutant of FinallyRemoves: the finally block purges the captured frames.
FinallyRemovesFrames(shots) == {shots[i] : i \in DOMAIN shots}

\* the files the finally block deletes (lines 1348-1352): it only closes the
\* browser, and the catch of lines 1534-1537 only logs and rethrows
FinallyRemoves(shots) == {}

\* finally { if (browser) await browser.close() } (lines 1348-1352); closing the
\* browser closes the contexts still open and saves their recordings; then the
\* run goes on, or the outer catch rethrows (lines 1534-1537)
Finally ==
    /\ UNCHANGED <<lastTranscode, call>>
    /\ pc = "finally"
    /\ UNCHANGED videoPath
    /\ browser' = BrowserClose(browser)
    /\ browserCloses' = IF browser' # browser THEN browserCloses + 1 ELSE browserCloses
    /\ videoContext' = IF videoContext = "open" THEN "closed" ELSE videoContext
    /\ \E tok \in VideoNames :
         /\ videoContext = "open" => (tok # mainVideo /\ VideoFile(config, tok) \notin files)
         /\ files' = (files \ FinallyRemoves(slideshowScreenshots))
                     \cup (IF mainVideo # "none" THEN {VideoFile(config, mainVideo)} ELSE {})
                     \cup (IF videoContext = "open" THEN {VideoFile(config, tok)} ELSE {})
    /\ pc' = IF error = "none" THEN "extract" ELSE "thrown"
    /\ UNCHANGED <<config, error, mainVideo, stepIndex, actionIndex, artifacts,
                   slideshowScreenshots, slideIndex, log, exitCode>>
    /\ UNCHANGED aiVars


\* ------------------------------------------------------ description bundles
\* A bundle is a JSON object: a function from field names to values.  The
\* value of "steps" says whether it is an array, and holds its items.
NoDescriptions == [null |-> NullText]

IsNull(d) == d = NoDescriptions

StepsArray(items) == [array |-> TRUE, items |-> items]

StepEntry(idx, name, text) == [stepIndex |-> idx, stepName |-> name, description |-> text]

\* { ...a, ...b }: the fields of b override those of a
Spread(a, b) ==
    [k \in (DOMAIN a) \cup (DOMAIN b) |-> IF k \in DOMAIN b THEN b[k] ELSE a[k]]

\* x || fallback on texts
OrElse(x, fallback) == IF x = NullText THEN fallback ELSE x

DefaultModel == "gpt-4o"

\* the bundle the generation pass starts from (lines 1397-1403)
FreshBundle(cfg) ==
    [description |-> OrElse(cfg.description, NullText),
     clientRequest |-> OrElse(cfg.clientRequest, NullText),
     clientflowTaskUrl |-> OrElse(cfg.clientflowTaskUrl, NullText),
     steps |-> StepsArray(<<>>),
     model |-> OrElse(cfg.aiModel, DefaultModel)]

\* Mutant of PushStep: an entry without text is left out.
PushStepWithText(d, entry) ==
    IF entry.description = NullText THEN d
    ELSE [d EXCEPT !["steps"] = StepsArray(Append(d["steps"].items, entry))]

\* descriptions.steps.push(entry)
PushStep(d, entry) == [d EXCEPT !["steps"] = StepsArray(Append(d["steps"].items, entry))]

\* what saveCachedDescriptions serialises (lines 527-532)
CacheData(d, keyType) ==
    Spread(d, [generatedAt |-> "now",
               model |-> OrElse(d["model"], DefaultModel),
               apiKeyType |-> OrElse(keyType, "unknown")])

\* apiKeyInfo?.type
ApiKeyType(key) == IF key = "none" THEN NullText ELSE key

\* the cache file: absent, unparseable, or JSON text holding a value
CacheAbsent == [state |-> "absent", data |-> NoDescriptions]

CacheCorrupt == [state |-> "corrupt", data |-> NoDescriptions]

CacheJson(d) == [state |-> "json", data |-> d]

\* Mutant of LoadCachedDescriptions: a bundle without an overall description
\* counts as a miss.
LoadCachedDescriptionsWithText(file) ==
    IF file.state = "json" /\ "description" \in DOMAIN file.data
                           /\ file.data["description"] # NullText
    THEN file.data ELSE NoDescriptions

\* loadCachedDescriptions (lines 509-521): the parsed value, or null on any error
LoadCachedDescriptions(file) == IF file.state = "json" THEN file.data ELSE NoDescriptions

\* a cache written by an earlier run, and a parseable file whose steps is no array
OldBundle ==
    [description |-> "old overall", clientRequest |-> "old request",
     clientflowTaskUrl |-> NullText,
     steps |-> StepsArray(<<StepEntry(0, <<"Old">>, "old step")>>),
     model |-> "old-model", generatedAt |-> "earlier", apiKeyType |-> "gateway"]

MisshapenBundle == [OldBundle EXCEPT !["steps"] = [array |-> FALSE, items |-> <<>>]]

CacheFiles == {CacheAbsent, CacheCorrupt, CacheJson(OldBundle), CacheJson(MisshapenBundle)}

\* --------------------------------------------------------- frame extraction
\* path.basename(videoPath, path.extname(videoPath))
BaseName(cfg, p) == SubSeq(p, Len(ArtifactsDir(cfg)) + 1, Len(p) - 1)

FrameTok(i) == CASE i = 1 -> "1" [] i = 2 -> "2" [] i = 3 -> "3" [] OTHER -> "4"

\* path.join(outputDir, `${baseName}-frame-${i + 1}.png`)
FramePath(cfg, video, i) ==
    ArtifactsDir(cfg) \o BaseName(cfg, video) \o <<"-frame-", FrameTok(i), ".png">>

\* the maxFrames argument of line 1361
MaxFrames == 3

\* what ffmpeg delivers for one recording: nothing, one frame, or every frame
FrameOutcomes == {{}, {2}, 1..MaxFrames}

\* what ffprobe reports, in tenths of a second; 0 stands for no usable duration
Durations == {0, 24, 30, 31, 50}

\* a time in tenths of a second, kept exact as a fraction
Rat(n, d) == [n |-> n, d |-> d]

Less(a, b) == a.n * b.d < b.n * a.d

\* Mutant of FrameTimes: the samples run from the start to the end of the video.
FrameTimesWithEndpoints(duration, maxFrames) ==
    [i \in 1..maxFrames |-> Rat(duration * (i - 1), maxFrames - 1)]

\* frameTimes (lines 329-341): evenly spaced up to 3 s, else 0.5 s, the middle
\* and 1 s before the end
FrameTimes(duration, maxFrames) ==
    IF duration <= 30
    THEN [i \in 1..maxFrames |-> Rat(duration * i, maxFrames + 1)]
    ELSE <<Rat(5, 1), Rat(duration, 2), Rat(IF duration - 10 > 5 THEN duration - 10 ELSE 5, 1)>>

\* the times the loop of line 344 visits
SampledTimes(duration, maxFrames) ==
    LET times == FrameTimes(duration, maxFrames)
    IN  SubSeq(times, 1, IF Len(times) < maxFrames THEN Len(times) ELSE maxFrames)

IsRecording(a) == a.type \in {"video", "gif", "slideshow"}

\* the frames array in ascending index, for the set of frames ffmpeg delivered
FramesOf(cfg, a, got, duration) ==
    LET times == SampledTimes(duration, MaxFrames)
        F[i \in 0..MaxFrames] ==
          IF i = 0 THEN <<>>
          ELSE IF i \in got /\ i <= Len(times)
               THEN Append(F[i - 1],
                           [path |-> FramePath(cfg, a.path, i), index |-> i,
                            time |-> times[i], duration |-> duration,
                            stepIndex |-> a.stepIndex, stepName |-> a.stepName,
                            sourceArtifact |-> a.name])
               ELSE F[i - 1]
    IN  F[MaxFrames]

\* extractVideoFrames (lines 307-366): the indices of the frames returned; none
\* without ffmpeg or a duration, else those whose ffmpeg call succeeded
ExtractVideoFrames(hasFFmpeg, duration, got) ==
    IF ~hasFFmpeg \/ duration = 0 THEN {}
    ELSE got \cap (1..Len(SampledTimes(duration, MaxFrames)))

\* ------------------------------------------ runReview: after the capture
\* One iteration of the extraction loop (lines 1356-1375); extractVideoFrames
\* (lines 307-366) returns [] without ffmpeg or a duration, else the frames
\* whose ffmpeg call succeeded
ExtractFrames ==
    /\ UNCHANGED call
    /\ pc = "extract"
    /\ UNCHANGED cacheAtStart
    /\ UNCHANGED videoPath
    /\ config.useAI
    /\ extractIndex <= Len(artifacts)
    /\ LET a == artifacts[extractIndex]
       IN  IF ~IsRecording(a)
           THEN UNCHANGED <<extractedFrames, files, lastTranscode>>
           ELSE \E hasFFmpeg \in BOOLEAN, got \in FrameOutcomes, duration \in Durations :
                  /\ a.path \notin files => duration = 0
                  /\ ~hasFFmpeg => duration = 0
                  /\ duration = 0 => got = {}
                  /\ LET frames == ExtractVideoFrames(hasFFmpeg, duration, got)
                     IN  /\ extractedFrames' =
                               extractedFrames \o FramesOf(config, a, frames, duration)
                         /\ files' = files \cup {FramePath(config, a.path, i) : i \in frames}
                         /\ lastTranscode' =
                               Transcode("frames",
                                         Cause(hasFFmpeg, duration # 0, got = 1..MaxFrames),
                                         frames # {}, Cardinality(frames))
    /\ extractIndex' = extractIndex + 1
    /\ UNCHANGED <<config, pc, error, browser, browserCloses, mainVideo, videoContext,
                   stepIndex, actionIndex, artifacts, slideshowScreenshots, slideIndex,
                   log, exitCode, apiKey, cacheFile, descriptions, genIndex, genCalls, genLog,
                   cacheLoads, cacheWrites, report>>

\* Lines 1377-1384: load the cache unless regeneration is forced
LoadCache ==
    /\ UNCHANGED <<lastTranscode, call>>
    /\ pc = "extract"
    /\ UNCHANGED cacheAtStart
    /\ UNCHANGED videoPath
    /\ ~config.useAI \/ extractIndex > Len(artifacts)
    /\ IF config.forceAI
       THEN UNCHANGED <<descriptions, cacheLoads>>
       ELSE /\ descriptions' = LoadCachedDescriptions(cacheFile)
            /\ cacheLoads' = cacheLoads + 1
    /\ pc' = "generate"
    /\ UNCHANGED <<config, error, browser, browserCloses, mainVideo, videoContext,
                   stepIndex, actionIndex, artifacts, files, slideshowScreenshots,
                   slideIndex, log, exitCode, apiKey, cacheFile, extractIndex,
                   extractedFrames, genIndex, genCalls, genLog, cacheWrites, report>>

\* Mutant of ShouldGenerate: a loaded cache does not stop the generation.
ShouldGenerateIgnoringCache(cfg, d) == cfg.useAI

\* config.useAI !== false && (!descriptions || config.forceAI) (line 1387)
ShouldGenerate(cfg, d) == cfg.useAI /\ (IsNull(d) \/ cfg.forceAI)

\* Lines 1386-1403: decide whether the generation pass runs, and start it
GenerateBegin ==
    /\ UNCHANGED <<lastTranscode, call>>
    /\ pc = "generate"
    /\ UNCHANGED cacheAtStart
    /\ UNCHANGED videoPath
    /\ IF ShouldGenerate(config, descriptions)
       THEN IF apiKey = "none"
            THEN /\ pc' = "cleanup"
                 /\ UNCHANGED descriptions
            ELSE /\ pc' = "genSteps"
                 /\ descriptions' = FreshBundle(config)
       ELSE /\ pc' = "cleanup"
            /\ UNCHANGED descriptions
    /\ genIndex' = 0
    /\ UNCHANGED <<config, error, browser, browserCloses, mainVideo, videoContext,
                   stepIndex, actionIndex, artifacts, files, slideshowScreenshots,
                   slideIndex, log, exitCode, apiKey, cacheFile, extractIndex,
                   extractedFrames, genCalls, genLog, cacheLoads, cacheWrites, report>>


\* seq.slice(0, n)
Take(seq, n) == SubSeq(seq, 1, IF Len(seq) < n THEN Len(seq) ELSE n)

\* seq.map(a => a.path)
Paths(seq) == [i \in DOMAIN seq |-> seq[i].path]

\* DEFAULT_CONFIG.maxScreenshotsPerStep (line 77) and the fallback of lines 427, 1450
MaxScreenshotsPerStep == 10

\* the slice of line 1492
OverallImageLimit == 5

\* what one call of generateAIDescription meets at the service: success, an
\* error that is no rate limit, or a rate limit followed by the retry's result
GenOutcomes == {"ok", "error", "rateLimitOk", "rateLimitFail"}

GeneratedText == "generated"

\* the first generateText call's result under an outcome: its text, an error
\* with status 429 or a message holding 'rate limit', or any other error
FirstResponse(outcome) ==
    CASE outcome = "ok" -> "ok"
      [] outcome = "error" -> "error"
      [] OTHER -> "rateLimit"

\* the result of the second generateText call under an outcome
RetryResponse(outcome) == IF outcome = "rateLimitOk" THEN "ok" ELSE "error"

\* error.status === 429 || error.message.includes('rate limit') (line 486)
IsRateLimit(response) == response = "rateLimit"

\* the setTimeout of line 488, in milliseconds
RetryDelay == 2000

Call(response) == [kind |-> "call", response |-> response, ms |-> 0]

Wait(ms) == [kind |-> "wait", response |-> "none", ms |-> ms]

\* Mutant of ServiceCalls: every failed first call is retried.
ServiceCallsRetryAnyError(outcome) ==
    IF FirstResponse(outcome) = "ok" THEN <<Call("ok")>>
    ELSE <<Call(FirstResponse(outcome)), Wait(RetryDelay), Call(RetryResponse(outcome))>>

\* the try/catch of lines 470-505: what generateAIDescription does at the
\* service, in order
ServiceCalls(outcome) ==
    LET first == FirstResponse(outcome)
    IN  IF first = "ok" THEN <<Call(first)>>
        ELSE IF IsRateLimit(first)
        THEN <<Call(first), Wait(RetryDelay), Call(RetryResponse(outcome))>>
        ELSE <<Call(first)>>

\* generateAIDescription (lines 413-506): throws without key or readable image;
\* else one call, and one retry after a rate-limit error; it returns the text
\* of the last call or throws
GenerateAIDescription(key, images, fs, outcome) ==
    LET imagesToAnalyze == Take(images, MaxScreenshotsPerStep)
        imageParts == SelectSeq(imagesToAnalyze, LAMBDA q : q \in fs)
        trace == IF key = "none" \/ Len(imageParts) = 0 THEN <<>> ELSE ServiceCalls(outcome)
        calls == SelectSeq(trace, LAMBDA e : e.kind = "call")
        ok == Len(calls) > 0 /\ calls[Len(calls)].response = "ok"
    IN  [ok |-> ok, text |-> IF ok THEN GeneratedText ELSE NullText,
         calls |-> Len(calls), trace |-> trace]

\* the record genLog keeps of one invocation made for a step (or for the
\* overall description, target -1)
Invocation(target, r) == [target |-> target, ok |-> r.ok, trace |-> r.trace]

\* the images of one step (lines 1405-1450): its screenshots in artifact order,
\* then the frames extracted from its recordings
StepImages(arts, frames, idx) ==
    Take(Paths(SelectSeq(arts, LAMBDA a : a.stepIndex = idx /\ a.type = "screenshot"))
           \o Paths(SelectSeq(frames, LAMBDA f : f.stepIndex = idx)),
         MaxScreenshotsPerStep)

\* the images of the overall description (lines 1489-1492)
OverallImages(arts) ==
    Take(Paths(SelectSeq(arts, LAMBDA a : a.type = "screenshot")), OverallImageLimit)

\* Mutant of StepFallback: a failed generation forgets the manual text.
StepFallbackNull(step) == NullText

\* step.description || null: what a step gets when generation fails or has no
\* image (lines 1470-1474, 1477-1481)
StepFallback(step) == OrElse(step.description, NullText)

\* Mutant of SkipsAI: a manual description does not stop the generation.
SkipsAINever(cfg, step) == FALSE

\* step.description && !config.forceAI (line 1437)
SkipsAI(cfg, step) == step.description # NullText /\ ~cfg.forceAI

\* One iteration of the per-step generation loop (lines 1432-1483)
GenerateStep ==
    /\ UNCHANGED <<lastTranscode, call>>
    /\ pc = "genSteps"
    /\ UNCHANGED cacheAtStart
    /\ UNCHANGED videoPath
    /\ genIndex < Len(config.steps)
    /\ LET step == config.steps[genIndex + 1]
           images == StepImages(artifacts, extractedFrames, genIndex)
       IN  IF SkipsAI(config, step)
           THEN /\ descriptions' = PushStep(descriptions,
                                      StepEntry(genIndex, step.name, step.description))
                /\ UNCHANGED <<genCalls, genLog>>
           ELSE IF Len(images) > 0
           THEN \E outcome \in GenOutcomes :
                  LET r == GenerateAIDescription(apiKey, images, files, outcome)
                  IN  /\ genCalls' = genCalls + r.calls
                      /\ genLog' = Append(genLog, Invocation(genIndex, r))
                      /\ descriptions' = PushStep(descriptions,
                             StepEntry(genIndex, step.name,
                                       IF r.ok THEN r.text ELSE StepFallback(step)))
           ELSE /\ descriptions' = PushStep(descriptions,
                       StepEntry(genIndex, step.name, StepFallback(step)))
                /\ UNCHANGED <<genCalls, genLog>>
    /\ genIndex' = genIndex + 1
    /\ UNCHANGED <<config, pc, error, browser, browserCloses, mainVideo, videoContext,
                   stepIndex, actionIndex, artifacts, files, slideshowScreenshots,
                   slideIndex, log, exitCode, apiKey, cacheFile, extractIndex,
                   extractedFrames, cacheLoads, cacheWrites, report>>

\* The overall description (lines 1486-1506)
GenerateOverall ==
    /\ UNCHANGED <<lastTranscode, call>>
    /\ pc = "genSteps"
    /\ UNCHANGED cacheAtStart
    /\ UNCHANGED videoPath
    /\ genIndex >= Len(config.steps)
    /\ LET allImages == OverallImages(artifacts)
       IN  IF descriptions["description"] = NullText /\ Len(allImages) > 0
           THEN \E outcome \in GenOutcomes :
                  LET r == GenerateAIDescription(apiKey, allImages, files, outcome)
                  IN  /\ genCalls' = genCalls + r.calls
                      /\ genLog' = Append(genLog, Invocation(-1, r))
                      /\ descriptions' = IF r.ok
                                         THEN [descriptions EXCEPT !["description"] = r.text]
                                         ELSE descriptions
           ELSE UNCHANGED <<descriptions, genCalls, genLog>>
    /\ pc' = "saveCache"
    /\ UNCHANGED <<config, error, browser, browserCloses, mainVideo, videoContext,
                   stepIndex, actionIndex, artifacts, files, slideshowScreenshots,
                   slideIndex, log, exitCode, apiKey, cacheFile, extractIndex,
                   extractedFrames, genIndex, cacheLoads, cacheWrites, report>>

\* Mutant of SaveCachedDescriptions: the new step entries are appended to
\* those of the file.
SaveCachedDescriptionsMerging(file, d, key, writeOk) ==
    LET new == CacheData(d, ApiKeyType(key))
    IN  IF ~writeOk THEN file
        ELSE IF file.state = "json" /\ "steps" \in DOMAIN file.data
        THEN CacheJson([new EXCEPT !["steps"] =
                           StepsArray(file.data["steps"].items \o new["steps"].items)])
        ELSE CacheJson(new)

\* saveCachedDescriptions (lines 524-538, called at 1509): one writeFile of the
\* whole serialised bundle; a failed write is logged and swallowed
SaveCachedDescriptions(file, d, key, writeOk) ==
    IF writeOk THEN CacheJson(CacheData(d, ApiKeyType(key))) ELSE file

SaveCache ==
    /\ UNCHANGED <<lastTranscode, call>>
    /\ pc = "saveCache"
    /\ UNCHANGED cacheAtStart
    /\ UNCHANGED videoPath
    /\ \E writeOk \in BOOLEAN :
         /\ cacheFile' = SaveCachedDescriptions(cacheFile, descriptions, apiKey, writeOk)
         /\ cacheWrites' = IF writeOk THEN cacheWrites + 1 ELSE cacheWrites
    /\ pc' = "cleanup"
    /\ UNCHANGED <<config, error, browser, browserCloses, mainVideo, videoContext,
                   stepIndex, actionIndex, artifacts, files, slideshowScreenshots,
                   slideIndex, log, exitCode, apiKey, extractIndex, extractedFrames,
                   descriptions, genIndex, genCalls, genLog, cacheLoads, report>>

\* Mutant of Unlinked: the loop stops after the first frame.
UnlinkedFirst(frames) == {frames[i].path : i \in DOMAIN frames \cap {1}}

\* the files the cleanup loop unlinks (lines 1519-1521)
Unlinked(frames) == {frames[i].path : i \in DOMAIN frames}

\* Lines 1518-1525: unlink every extracted frame
CleanupFrames ==
    /\ UNCHANGED <<lastTranscode, call>>
    /\ pc = "cleanup"
    /\ UNCHANGED videoPath
    /\ files' = files \ Unlinked(extractedFrames)
    /\ pc' = "report"
    /\ UNCHANGED <<config, error, browser, browserCloses, mainVideo, videoContext,
                   stepIndex, actionIndex, artifacts, slideshowScreenshots, slideIndex,
                   log, exitCode>>
    /\ UNCHANGED aiVars

\* path.join(config.outputDir, 'index.html')
ReportPath(cfg) == cfg.outputDir \o <<"/index", ".html">>

\* generateHTMLReport renders a section per step that has artifacts, and there
\* calls descriptions?.steps?.find (line 883): a TypeError when steps is no array
ReportThrows(cfg, arts, d) ==
    /\ \E i \in DOMAIN arts : arts[i].stepIndex >= 0
    /\ ~IsNull(d)
    /\ "steps" \in DOMAIN d
    /\ ~d["steps"].array

\* the report has a section for step k when some artifact carries its index
\* (lines 553-560, 878-880)
HasStepSection(arts, k) == \E i \in DOMAIN arts : arts[i].stepIndex = k

\* the text of the step-description block of step k (lines 883, 893-897):
\* descriptions?.steps?.find(s => s.stepIndex === k)?.description
ShownStepDescription(d, k) ==
    IF IsNull(d) \/ "steps" \notin DOMAIN d THEN NullText
    ELSE LET hits == SelectSeq(d["steps"].items, LAMBDA e : e.stepIndex = k)
         IN  IF hits = <<>> THEN NullText ELSE hits[1].description

\* the text of the header's Description block (lines 848-855):
\* descriptions?.description || config.description
ShownDescription(cfg, d) ==
    OrElse(IF IsNull(d) \/ "description" \notin DOMAIN d THEN NullText ELSE d["description"],
           cfg.description)

NoReport == [generated |-> FALSE, artifacts |-> <<>>, descriptions |-> NoDescriptions]

\* Lines 1527-1533: generate the report and return its path; an exception
\* reaches the outer catch, which rethrows (lines 1534-1537)
GenerateReport ==
    /\ UNCHANGED <<lastTranscode, call>>
    /\ pc = "report"
    /\ UNCHANGED cacheAtStart
    /\ UNCHANGED videoPath
    /\ IF ReportThrows(config, artifacts, descriptions)
       THEN /\ pc' = "thrown"
            /\ error' = "report"
            /\ UNCHANGED <<files, report>>
       ELSE /\ pc' = "returned"
            /\ error' = error
            /\ files' = files \cup {ReportPath(config)}
            /\ report' = [generated |-> TRUE, artifacts |-> artifacts,
                          descriptions |-> descriptions]
    /\ UNCHANGED <<config, browser, browserCloses, mainVideo, videoContext, stepIndex,
                   actionIndex, artifacts, slideshowScreenshots, slideIndex, log, exitCode,
                   apiKey, cacheFile, extractIndex, extractedFrames, descriptions,
                   genIndex, genCalls, genLog, cacheLoads, cacheWrites>>

\* ------------------------------------------------------------------- main
\* main after runReview returned (lines 1633-1636)
MainReturn ==
    /\ UNCHANGED <<lastTranscode, call>>
    /\ pc = "returned"
    /\ UNCHANGED videoPath
    /\ pc' = "exited"
    /\ exitCode' = "0"
    /\ UNCHANGED <<config, error, browser, browserCloses, mainVideo, videoContext,
                   stepIndex, actionIndex, artifacts, files, slideshowScreenshots,
                   slideIndex, log>>
    /\ UNCHANGED aiVars

\* main's catch (lines 1637-1647): report the message, process.exit(1)
MainCatch ==
    /\ UNCHANGED <<lastTranscode, call>>
    /\ pc = "thrown"
    /\ UNCHANGED videoPath
    /\ pc' = "exited"
    /\ exitCode' = "1"
    /\ UNCHANGED <<config, error, browser, browserCloses, mainVideo, videoContext,
                   stepIndex, actionIndex, artifacts, files, slideshowScreenshots,
                   slideIndex, log>>
    /\ UNCHANGED aiVars

\* ------------------------------------------------------------ specification
\* The inputs of a run: the configuration, the API key of the environment and
\* the cache file found in the output directory.  They are drawn from three
\* families, each varying one part of the input over its whole pool:
\*   capture: AI off; one step with every action list up to MaxActions, or up
\*            to MaxSteps steps with short action lists, in every format;
\*   AI:      up to MaxSteps unrecorded steps under every AI setting, API key
\*            and cache file;
\*   frames:  one recorded step in every format, under every AI setting, API
\*            key and cache file.
Config(format, url, steps, useAI, forceAI, description) ==
    [outputDir |-> <<"out">>, videoFormat |-> format, url |-> url, steps |-> steps,
     useAI |-> useAI, forceAI |-> forceAI, description |-> description,
     clientRequest |-> NullText, clientflowTaskUrl |-> NullText, aiModel |-> DefaultModel]

RichSteps ==
    [name : StepNames, url : {NullText, "/cart"}, record : BOOLEAN,
     actions : SeqsUpTo(ActionPool, MaxActions), description : {NullText}]

ShortActionLists == {<<>>, <<Shot(<<>>), Shot(<<"hero", "-slide-", "1">>)>>}

SequenceSteps ==
    [name : StepNames, url : {NullText}, record : BOOLEAN,
     actions : ShortActionLists, description : {NullText}]

DescribedSteps ==
    [name : {<<"Home">>}, url : {NullText}, record : {FALSE},
     actions : {<<>>, <<Shot(<<>>)>>}, description : {NullText, "manual"}]

RecordedSteps ==
    [name : {<<"Home">>}, url : {NullText}, record : {TRUE},
     actions : {<<>>, <<Shot(<<>>)>>}, description : {NullText, "manual"}]

AISettings ==
    BOOLEAN \X BOOLEAN \X {NullText, "manual overall"} \X {"none", "direct"} \X CacheFiles

CaptureInputs ==
    {<<Config(f, u, st, FALSE, FALSE, NullText), "none", CacheAbsent>> :
        f \in VideoFormats, u \in TopUrls, st \in {<<>>} \cup {<<s>> : s \in RichSteps}}
    \cup
    {<<Config(f, NullText, st, FALSE, FALSE, NullText), "none", CacheAbsent>> :
        f \in VideoFormats, st \in SeqsUpTo(SequenceSteps, MaxSteps)}

AIInputs ==
    {<<Config("slideshow", NullText, st, x[1], x[2], x[3]), x[4], x[5]>> :
        st \in SeqsUpTo(DescribedSteps, MaxSteps), x \in AISettings}

FrameInputs ==
    {<<Config(f, NullText, <<s>>, x[1], x[2], x[3]), x[4], x[5]>> :
        f \in VideoFormats, s \in RecordedSteps, x \in AISettings}

Inputs == CaptureInputs \cup AIInputs \cup FrameInputs

Start(in) ==
    /\ config = in[1]
    /\ apiKey = in[2]
    /\ cacheFile = in[3]
    /\ cacheAtStart = in[3]
    /\ pc = "launch"
    /\ error = "none"
    /\ browser = "none"
    /\ browserCloses = 0
    /\ mainVideo = "none"
    /\ videoContext = "none"
    /\ stepIndex = 0
    /\ actionIndex = 1
    /\ artifacts = <<>>
    /\ files = {}
    /\ slideshowScreenshots = <<>>
    /\ slideIndex = 0
    /\ videoPath = <<>>
    /\ log = <<>>
    /\ exitCode = "running"
    /\ lastTranscode = NoTranscode
    /\ extractIndex = 1
    /\ extractedFrames = <<>>
    /\ descriptions = NoDescriptions
    /\ genIndex = 0
    /\ genCalls = 0
    /\ genLog = <<>>
    /\ cacheLoads = 0
    /\ cacheWrites = 0
    /\ report = NoReport

Init ==
    /\ \E in \in Inputs : Start(in)
    /\ call = NoCall

Next ==
    \/ Launch
    \/ NewContext
    \/ SingleUrl
    \/ StepBegin
    \/ SlideshowAction
    \/ VideoAction
    \/ PlainAction
    \/ SlideshowPost
    \/ VideoPost
    \/ PlainPost
    \/ CloseContext
    \/ Finally
    \/ ExtractFrames
    \/ LoadCache
    \/ GenerateBegin
    \/ GenerateStep
    \/ GenerateOverall
    \/ SaveCache
    \/ CleanupFrames
    \/ GenerateReport
    \/ MainReturn
    \/ MainCatch

Spec == Init /\ [][Next]_vars


\* ================================================================== claims
IsPrefix(a, b) == Len(a) <= Len(b) /\ \A i \in DOMAIN a : a[i] = b[i]

\* what one step executes, in the order of the code
StepSchedule(steps, k) ==
    <<Event("begin", k, 0)>>
      \o [a \in 1..Len(steps[k + 1].actions) |-> Event("action", k, a)]
      \o <<Event("post", k, 0)>>

Schedule(steps) ==
    LET F[k \in 0..Len(steps)] == IF k = 0 THEN <<>> ELSE F[k - 1] \o StepSchedule(steps, k - 1)
    IN  F[Len(steps)]

ArtifactsOf(k, type) == SelectSeq(artifacts, LAMBDA a : a.stepIndex = k /\ a.type = type)

CountOf(k, type) == Len(ArtifactsOf(k, type))

ShotActions(step) == SelectSeq(step.actions, LAMBDA a : a.type = "screenshot")

ExpectedShots(k) ==
    LET step == config.steps[k + 1]
        shots == ShotActions(step)
    IN  [i \in DOMAIN shots |-> ScreenshotArtifact(config, shots[i], k, step)]

StepIndices == 0..(Len(config.steps) - 1)

\* the step loop has just finished step k, which ran in the given mode
JustCompleted(k, mode) ==
    /\ k \in StepIndices
    /\ pc = "stepLoop"
    /\ stepIndex = k + 1
    /\ Mode(config, config.steps[k + 1]) = mode

\* errors raised by a navigation, an action or a screenshot
CaptureErrors == {"goto", "screenshot", "stepNav", "modeNav", "initShot", "action"}

\* every error the capture phase can end with
CapturePhaseErrors ==
    CaptureErrors \cup {"launch", "newContext", "newVideoContext", "readdir", "contextClose"}

AfterFinally ==
    pc \in {"extract", "generate", "genSteps", "saveCache", "cleanup", "report",
            "returned", "thrown", "exited"}

\* C1: steps run in configuration order and the actions of a step in list
\* order, each step finishing (its post-processing included) before the next
\* begins; the artifact list is ordered by non-decreasing stepIndex and the
\* screenshot artifacts of a step are in the order of their actions.
StepsRunInOrder ==
    /\ IsPrefix(log, Schedule(config.steps))
    /\ \A i, j \in DOMAIN artifacts :
         i < j => artifacts[i].stepIndex <= artifacts[j].stepIndex
    /\ \A k \in StepIndices : IsPrefix(ArtifactsOf(k, "screenshot"), ExpectedShots(k))

StepsRunInOrderWitness ==
    /\ pc = "returned"
    /\ Len(config.steps) = 2
    /\ CountOf(0, "screenshot") = 2
    /\ ArtifactsOf(0, "screenshot")[1].name # ArtifactsOf(0, "screenshot")[2].name
    /\ CountOf(0, "slideshow") = 1
    /\ CountOf(1, "screenshot") = 2

\* a step taken after a capture error executes and captures nothing
NothingAfterCaptureError ==
    error \in CaptureErrors => (log' = log /\ artifacts' = artifacts /\ error' = error)

\* C2: once a navigation, an action or a screenshot has raised, nothing more
\* is executed or captured, no report is generated, the error stays the one
\* rethrown, and main exits with status 1.
CaptureErrorAbortsRun ==
    /\ [](error \in CaptureErrors =>
            /\ pc \in {"finally", "thrown", "exited"}
            /\ ~report.generated
            /\ (pc = "exited" => exitCode = "1"))
    /\ [][NothingAfterCaptureError]_vars

CaptureErrorAbortsRunWitness ==
    /\ pc = "exited"
    /\ exitCode = "1"
    /\ error = "action"
    /\ Len(config.steps) = 2
    /\ log[Len(log)] = Event("action", 0, 1)

\* C3: after a successful launch every exit path closes the browser exactly
\* once: past the finally block the browser is closed, and it was closed once.
BrowserClosedOnEveryExit ==
    /\ browserCloses <= 1
    /\ (AfterFinally /\ browser # "none") => (browser = "closed" /\ browserCloses = 1)

BrowserClosedOnEveryExitWitness ==
    /\ pc = "thrown"
    /\ error = "action"
    /\ videoContext = "closed"
    /\ browser = "closed"
    /\ browserCloses = 1

\* C4 (as claimed): when generateHTMLReport is called, the file of every
\* artifact record is present.
ArtifactFilesPresentAtReport ==
    pc = "report" => \A i \in DOMAIN artifacts : artifacts[i].path \in files

\* the numbered frames a slideshow step writes
FrameFiles(k) ==
    LET step == config.steps[k + 1]
    IN  {SlidePath(config, step, n) : n \in 0..Len(step.actions)}

RecordedStepKeepsPrimaryArtifact ==
    config.videoFormat = "gif" =>
      \A k \in StepIndices :
        (k < stepIndex /\ Mode(config, config.steps[k + 1]) = "video") =>
          /\ CountOf(k, "gif") + CountOf(k, "video") = 1
          /\ \A i \in DOMAIN artifacts :
               (artifacts[i].stepIndex = k /\ artifacts[i].type \in {"gif", "video"}) =>
                 artifacts[i].path \in files

\* the capture phase ended without error
CaptureCompleted == browserCloses = 1 /\ error \notin CapturePhaseErrors

\* C7 (as claimed): a run whose capture phase completed ends with the report
\* generated.
ReportFollowsCapture ==
    (pc = "exited" /\ CaptureCompleted) => (report.generated /\ exitCode = "0")

ActionAt(e) == config.steps[e.s + 1].actions[e.a]

\* C8 (as claimed): an action of unrecognised type ends the run with an
\* UnknownActionType error: it is the last thing executed.
UnknownActionTypeRaises ==
    \A i \in DOMAIN log :
      (log[i].k = "action" /\ ActionAt(log[i]).type \notin RecognisedTypes) =>
        (i = Len(log) /\ error = "UnknownActionType")

\* the value the run got from loadCachedDescriptions
LoadedAtStart ==
    IF config.forceAI THEN NoDescriptions ELSE LoadCachedDescriptions(cacheAtStart)

\* C9: with forceAI off and a cache that loads, no generation call is made,
\* the cache file is not written, and the report gets the loaded bundle.
CacheHitReusedEntirely ==
    (~config.forceAI /\ cacheLoads >= 1 /\ cacheAtStart.state = "json") =>
        /\ genCalls = 0
        /\ cacheWrites = 0
        /\ cacheFile = cacheAtStart
        /\ descriptions = cacheAtStart.data
        /\ report.generated => report.descriptions = cacheAtStart.data

CacheHitWitness ==
    /\ pc = "returned"
    /\ config.useAI
    /\ apiKey = "direct"
    /\ ~config.forceAI
    /\ cacheAtStart = CacheJson(OldBundle)
    /\ Len(artifacts) = 2
    /\ report.descriptions = OldBundle

\* the generation pass ran to its end
GenerationRan ==
    /\ pc \in {"cleanup", "report", "returned", "thrown", "exited"}
    /\ CaptureCompleted
    /\ config.useAI /\ (IsNull(LoadedAtStart) \/ config.forceAI)
    /\ apiKey # "none"

\* every field of the bundle comes from this run's configuration and generation
FreshOnly(d) ==
    /\ DOMAIN d = {"description", "clientRequest", "clientflowTaskUrl", "steps", "model",
                   "generatedAt", "apiKeyType"}
    /\ d["description"] \in {NullText, config.description, GeneratedText}
    /\ d["clientRequest"] = config.clientRequest
    /\ d["clientflowTaskUrl"] = config.clientflowTaskUrl
    /\ d["model"] = config.aiModel
    /\ d["generatedAt"] = "now"
    /\ d["apiKeyType"] = apiKey
    /\ d["steps"].array
    /\ Len(d["steps"].items) = Len(config.steps)
    /\ \A i \in DOMAIN d["steps"].items :
         LET e == d["steps"].items[i]
         IN  /\ e.stepIndex = i - 1
             /\ e.stepName = config.steps[i].name
             /\ e.description \in {NullText, config.steps[i].description, GeneratedText}

CacheRoundTrip ==
    (pc = "cleanup" /\ cacheWrites = 1) =>
        LET loaded == LoadCachedDescriptions(cacheFile)
            kept == DOMAIN descriptions \ {"generatedAt"}
        IN  /\ DOMAIN loaded \ {"generatedAt"} = kept
            /\ \A f \in kept : loaded[f] = descriptions[f]

\* C12 (as claimed): a missing or corrupt cache file loads as null, and no run
\* that loaded the cache fails in the report generation.
CacheNeverFailsRun ==
    /\ IsNull(LoadCachedDescriptions(CacheAbsent))
    /\ IsNull(LoadCachedDescriptions(CacheCorrupt))
    /\ cacheLoads >= 1 => error # "report"

CallsOf(trace) == SelectSeq(trace, LAMBDA e : e.kind = "call")

GenerationOver == pc \in {"saveCache", "cleanup", "report", "returned", "thrown", "exited"}

\* step j is one the pass generates for: no manual text to take, and images
NeedsGeneration(j) ==
    /\ config.steps[j + 1].description = NullText \/ config.forceAI
    /\ \E i \in DOMAIN artifacts :
         artifacts[i].stepIndex = j /\ artifacts[i].type = "screenshot"

\* C14: when the generation for step k fails, the bundle gets an entry for
\* step k with the step's manual description (null without one), every later
\* step and the overall description are still generated for, and the run ends
\* with the report and status 0.
StepFailureDoesNotAbort ==
    \A i \in DOMAIN genLog :
      (genLog[i].target >= 0 /\ ~genLog[i].ok) =>
        LET k == genLog[i].target
            items == descriptions["steps"].items
        IN  /\ Len(items) > k
            /\ items[k + 1] = [stepIndex |-> k, stepName |-> config.steps[k + 1].name,
                               description |-> config.steps[k + 1].description]
            /\ error = "none"
            /\ GenerationOver =>
                 /\ Len(items) = Len(config.steps)
                 /\ \A j \in (k + 1)..(Len(config.steps) - 1) :
                      NeedsGeneration(j) => \E m \in DOMAIN genLog : m > i /\ genLog[m].target = j
                 /\ (config.description = NullText /\ \E j \in StepIndices : NeedsGeneration(j))
                      => genLog[Len(genLog)].target = -1
            /\ pc = "exited" => (exitCode = "0" /\ report.generated)

StepFailureWitness ==
    /\ pc = "exited"
    /\ config.forceAI
    /\ Len(config.steps) = 2
    /\ Len(genLog) = 3
    /\ genLog[1].target = 0 /\ ~genLog[1].ok
    /\ genLog[2].target = 1 /\ genLog[2].ok
    /\ genLog[3].target = -1
    /\ descriptions["steps"].items[1].description = "manual"

\* the generation pass has started in this run
GenerationPass ==
    /\ pc \in {"genSteps", "saveCache", "cleanup", "report", "returned", "thrown", "exited"}
    /\ CaptureCompleted
    /\ config.useAI /\ (IsNull(LoadedAtStart) \/ config.forceAI)
    /\ apiKey # "none"

\* C15: in a generation pass without forceAI, a step with a manual description
\* gets no generation call and its entry holds exactly the manual text.
ManualStepSkipsAI ==
    (GenerationPass /\ ~config.forceAI) =>
      \A k \in StepIndices :
        (config.steps[k + 1].description # NullText /\ genIndex > k) =>
          /\ \A i \in DOMAIN genLog : genLog[i].target # k
          /\ descriptions["steps"].items[k + 1] =
               [stepIndex |-> k, stepName |-> config.steps[k + 1].name,
                description |-> config.steps[k + 1].description]

ManualStepSkipsAIWitness ==
    /\ pc = "returned"
    /\ GenerationPass
    /\ ~config.forceAI
    /\ Len(config.steps) = 2
    /\ config.steps[1].description = "manual"
    /\ \E i \in DOMAIN artifacts : artifacts[i].stepIndex = 0
    /\ config.steps[2].description = NullText
    /\ genLog # <<>>
    /\ genLog[1].target = 1
    /\ descriptions["steps"].items[1].description = "manual"

\* C16 (as claimed): without forceAI, the report shows for every step that has
\* a manual description (and a section in the report) exactly that text.
ManualStepDescriptionShown ==
    (report.generated /\ ~config.forceAI) =>
      \A k \in StepIndices :
        (config.steps[k + 1].description # NullText /\ HasStepSection(report.artifacts, k)) =>
          ShownStepDescription(report.descriptions, k) = config.steps[k + 1].description

\* C17 (as claimed): with a manual overall description no overall generation
\* call is made and the report shows the manual text as the description.
ManualOverallDescriptionShown ==
    config.description # NullText =>
      /\ \A i \in DOMAIN genLog : genLog[i].target # -1
      /\ report.generated => ShownDescription(config, report.descriptions) = config.description

\* C18: with a top-level url and no steps, once the navigation and the
\* screenshot have succeeded the artifact list is exactly one screenshot
\* artifact named 'Page Screenshot' with stepIndex -1.
SingleUrlOneScreenshot ==
    (/\ config.url # NullText
     /\ config.steps = <<>>
     /\ pc \notin {"launch", "newContext", "singleUrl"}
     /\ error \notin {"launch", "newContext", "goto", "screenshot"}) =>
        /\ Len(artifacts) = 1
        /\ artifacts[1].type = "screenshot"
        /\ artifacts[1].name = <<"Page Screenshot">>
        /\ artifacts[1].stepIndex = -1

SingleUrlWitness ==
    /\ pc = "returned"
    /\ config.url # NullText
    /\ config.steps = <<>>
    /\ config.videoFormat = "webm"
    /\ report.generated
    /\ Len(report.artifacts) = 1

SameTime(a, b) == a.n * b.d = b.n * a.d

\* C19: every extracted frame's timestamp lies strictly inside (0, d) for the
\* probed duration d; for d <= 3 s frame k is at d*k/4, for d > 3 s the frames
\* are at 0.5 s, d/2 and d - 1 s; the timestamps of one video increase strictly
\* with the frame index and a video yields at most 3 frames (times in tenths
\* of a second).
FrameTimesInsideVideo ==
    /\ \A i \in DOMAIN extractedFrames :
         LET f == extractedFrames[i]
         IN  /\ Less([n |-> 0, d |-> 1], f.time)
             /\ Less(f.time, [n |-> f.duration, d |-> 1])
             /\ f.index \in 1..3
             /\ f.duration <= 30 => SameTime(f.time, [n |-> f.duration * f.index, d |-> 4])
             /\ f.duration > 30 =>
                  SameTime(f.time, CASE f.index = 1 -> [n |-> 5, d |-> 1]
                                     [] f.index = 2 -> [n |-> f.duration, d |-> 2]
                                     [] OTHER -> [n |-> f.duration - 10, d |-> 1])
    /\ \A i, j \in DOMAIN extractedFrames :
         (i < j /\ extractedFrames[i].sourceArtifact = extractedFrames[j].sourceArtifact
                /\ extractedFrames[i].stepIndex = extractedFrames[j].stepIndex) =>
           /\ extractedFrames[i].index < extractedFrames[j].index
           /\ Less(extractedFrames[i].time, extractedFrames[j].time)
    /\ \A k \in StepIndices :
         Len(SelectSeq(extractedFrames, LAMBDA f : f.stepIndex = k)) <= 3

FrameTimesWitness ==
    /\ Len(extractedFrames) = 3
    /\ extractedFrames[1].duration = 24
    /\ extractedFrames[1].time = [n |-> 24, d |-> 4]
    /\ extractedFrames[3].time = [n |-> 72, d |-> 4]
    /\ pc = "returned"

TranscodeStepGoesOn ==
    lastTranscode' # lastTranscode => (error' = "none" /\ pc' \notin {"finally", "thrown"})

Parents(p) == {SubSeq(p, 1, i) : i \in 1..(Len(p) - 1)}

FileTrees ==
    LET paths == {<<"out">>, <<"out", "artifacts">>, <<"out", "index.html">>,
                  <<"out", "artifacts", "shot.png">>, <<"tmp">>}
    IN  {t \in [dirs : SUBSET paths, files : SUBSET paths] :
            /\ t.dirs \cap t.files = {}
            /\ \A p \in t.dirs \cup t.files : Parents(p) \subseteq t.dirs}

\* fs.access(dir): resolves when the path names an entry, rejects otherwise
Access(tree, dir) == dir \in tree.dirs \cup tree.files

\* fs.mkdir(dir, { recursive: true }): creates the directory and its missing
\* parents; rejects when the path or one of its parents is a regular file
Mkdir(tree, dir) ==
    IF (Parents(dir) \cup {dir}) \cap tree.files # {}
    THEN [tree |-> tree, raised |-> TRUE]
    ELSE [tree |-> [tree EXCEPT !.dirs = @ \cup Parents(dir) \cup {dir}], raised |-> FALSE]

\* Mutant of EnsureDir: mkdir is called without asking whether the path exists.
EnsureDirUnasked(tree, dir) ==
    LET made == Mkdir(tree, dir)
    IN  [tree |-> made.tree, raised |-> made.raised, mkdirs |-> 1]

\* ensureDir (lines 249-255): mkdir only when access rejects
EnsureDir(tree, dir) ==
    IF Access(tree, dir)
    THEN [tree |-> tree, raised |-> FALSE, mkdirs |-> 0]
    ELSE LET made == Mkdir(tree, dir)
         IN  [tree |-> made.tree, raised |-> made.raised, mkdirs |-> 1]

\* one call of ensureDir, on a fresh tree or on the tree the previous call left
EnsureDirCall ==
    /\ call.fn \in {"none", "ensureDir"}
    /\ \E dir \in {<<"out">>, <<"out", "artifacts">>, <<"tmp">>}, fresh \in FileTrees :
         LET before == IF call.fn = "none" THEN fresh ELSE call.after
             r == EnsureDir(before, dir)
         IN  /\ call.fn = "ensureDir" => fresh = call.after
             /\ call' = [fn |-> "ensureDir", dir |-> dir, before |-> before,
                         after |-> r.tree, raised |-> r.raised, mkdirs |-> r.mkdirs,
                         prior |-> IF call.fn = "none"
                                   THEN [dir |-> <<>>, raised |-> FALSE, mkdirs |-> 0]
                                   ELSE [dir |-> call.dir, raised |-> call.raised,
                                         mkdirs |-> call.mkdirs]]
    /\ UNCHANGED runVars

\* ---------------------------------------- parseArgs, validateConfig, main
MaxArgs == 4

\* DEFAULT_CONFIG (lines 66-78); a config is a function from the names of the
\* fields it has to their values
DEFAULT_CONFIG ==
    [baseUrl |-> "http://localhost:7777", outputDir |-> "review-reports",
     videoFormat |-> "slideshow", gifQuality |-> "medium", screenshotFormat |-> "png",
     useAI |-> TRUE, aiProvider |-> "openai", aiModel |-> "gpt-4o",
     maxScreenshotsPerStep |-> MaxScreenshotsPerStep]

\* the words of the command lines: options, values and config file names
ArgTokens ==
    {"--title", "Review", "--config", "review.json", "gif.json", "bad.json",
     "missing.json", "--format", "gif", "slideshow", "webm", "--no-ai", "--help"}

\* fs.readFile + JSON.parse of a config file (line 114): the object in the
\* file, or how the read failed ("invalid" for a file that is not JSON,
\* "ENOENT" for no file)
ConfigFile(name) ==
    CASE name = "review.json" ->
           [read |-> "ok",
            data |-> [title |-> "From file", steps |-> <<[name |-> "Home"]>>]]
      [] name = "gif.json" ->
           [read |-> "ok",
            data |-> [title |-> "From file", steps |-> <<[name |-> "Home"]>>,
                      videoFormat |-> "gif"]]
      [] name = "bad.json" -> [read |-> "invalid"]
      [] OTHER -> [read |-> "ENOENT"]

\* Mutant of Assign: a field that already has a value keeps it.
AssignMissing(target, source) ==
    [k \in DOMAIN target \cup DOMAIN source |->
        IF k \in DOMAIN target THEN target[k] ELSE source[k]]

\* Object.assign(target, source), and an assignment to one field
Assign(target, source) ==
    [k \in DOMAIN target \cup DOMAIN source |->
        IF k \in DOMAIN source THEN source[k] ELSE target[k]]

Rejected(applied, message) ==
    [status |-> "rejected", error |-> message, applied |-> applied]

\* the loop of parseArgs (lines 85-242) from args[i] on: `applied` lists the
\* assignments made so far, in order
RECURSIVE ParseFrom(_, _, _, _)
ParseFrom(args, i, cfg, applied) ==
    IF i > Len(args)
    THEN [status |-> "ok", config |-> cfg, error |-> "none", applied |-> applied]
    ELSE
      LET arg == args[i]
          has == i + 1 <= Len(args)
          Set(data, skip) ==
              ParseFrom(args, i + skip, Assign(cfg, data), Append(applied, data))
      IN  CASE arg = "--title" ->
                 IF ~has THEN Rejected(applied, "--title requires a value")
                 ELSE IF args[i + 1] \in {"", " "}
                      THEN Rejected(Append(applied, [title |-> args[i + 1]]),
                                    "--title cannot be empty")
                      ELSE Set([title |-> args[i + 1]], 2)
            [] arg = "--config" ->
                 IF ~has THEN Rejected(applied, "--config requires a file path")
                 ELSE LET configData == ConfigFile(args[i + 1])
                      IN  CASE configData.read = "ENOENT" ->
                                 Rejected(applied, "Config file not found")
                            [] configData.read = "invalid" ->
                                 Rejected(applied, "Invalid JSON in config file")
                            [] OTHER -> Set(configData.data, 2)
            [] arg = "--format" ->
                 IF ~has THEN Rejected(applied, "--format requires a value")
                 ELSE IF args[i + 1] \notin {"slideshow", "webm", "gif"}
                      THEN Rejected(Append(applied, [videoFormat |-> args[i + 1]]),
                                    "--format must be slideshow, webm, or gif")
                      ELSE Set([videoFormat |-> args[i + 1]], 2)
            [] arg = "--no-ai" -> Set([useAI |-> FALSE], 1)
            [] arg = "--help" ->
                 [status |-> "exit", error |-> "none", applied |-> applied]
            [] OTHER -> Rejected(applied, "Unknown option or unexpected argument")

\* parseArgs (lines 81-246)
ParseArgs(args) == ParseFrom(args, 1, DEFAULT_CONFIG, <<>>)

Has(cfg, k) == k \in DOMAIN cfg

\* validateConfig (lines 1541-1612): the message of the error it throws,
\* "none" when it returns. Every field keeps the type it has in
\* DEFAULT_CONFIG or in the config files, so the typeof checks pass.
ValidateConfig(cfg) ==
    CASE ~Has(cfg, "title") \/ cfg.title \in {"", " "} ->
           "--title is required and cannot be empty"
      [] ~Has(cfg, "url") /\ ~Has(cfg, "steps") ->
           "Either --url or --config with steps is required"
      [] Has(cfg, "steps") /\ \E s \in Range(cfg.steps) : ~Has(s, "name") ->
           "Step: name is required"
      [] Has(cfg, "videoFormat") /\ cfg.videoFormat \notin {"gif", "webm"} ->
           "videoFormat must be either gif or webm"
      [] Has(cfg, "gifQuality") /\ cfg.gifQuality \notin {"low", "medium", "high"} ->
           "gifQuality must be low, medium, or high"
      [] Has(cfg, "maxScreenshotsPerStep") /\ cfg.maxScreenshotsPerStep <= 0 ->
           "maxScreenshotsPerStep must be a positive number"
      [] OTHER -> "none"

\* main (lines 1615-1648) up to its call of runReview: `reached` tells
\* whether runReview was called, `exit` the status the process exits with
\* before that ("none" when it goes on into runReview)
MainCall ==
    /\ call.fn = "none"
    /\ \E args \in SeqsUpTo(ArgTokens, MaxArgs) :
         LET parsed == ParseArgs(args)
             invalid == IF parsed.status = "ok" THEN ValidateConfig(parsed.config)
                        ELSE "none"
         IN  call' = [fn |-> "main", args |-> args, parsed |-> parsed,
                      error |-> IF parsed.status = "rejected" THEN parsed.error
                                ELSE invalid,
                      reached |-> parsed.status = "ok" /\ invalid = "none",
                      exit |-> CASE parsed.status = "exit" -> "0"
                                 [] parsed.status = "rejected" -> "1"
                                 [] invalid # "none" -> "1"
                                 [] OTHER -> "none"]
    /\ UNCHANGED runVars

\* ------------------------------------------------------ the action switch
\* The actions a step can hold, with and without their optional fields.
\* 'scroll' is the type HANDOFF.md documents with x and y.
ActionInputs ==
    {[type |-> t] : t \in {"screenshot", "click", "type", "wait", "navigate", "scroll"}}
    \cup {[type |-> t, waitAfter |-> w] : t \in {"click", "type"}, w \in {0, 250}}
    \cup {[type |-> "wait", ms |-> w] : w \in {0, 250}}
    \cup {[type |-> "scroll", x |-> 0, y |-> y] : y \in {0, 500}}

\* action[field] || otherwise, on a numeric field: undefined and 0 are falsy
OrNumber(action, field, otherwise) ==
    IF Has(action, field) /\ action[field] # 0 THEN action[field] ELSE otherwise

\* One pass of switch (action.type) (lines 1109-1148, and the same cases at
\* 1211-1249 and 1307-1342) on a page: where the page is scrolled to and how
\* long waitForTimeout has idled. A type without a case falls through.
ActionSwitch(action, page) ==
    CASE action.type = "click" ->
           [page EXCEPT !.idled = @ + OrNumber(action, "waitAfter", 500)]
      [] action.type = "type" ->
           [page EXCEPT !.idled = @ + OrNumber(action, "waitAfter", 300)]
      [] action.type = "wait" ->
           [page EXCEPT !.idled = @ + OrNumber(action, "ms", 1000)]
      [] action.type = "navigate" ->
           [scroll |-> <<0, 0>>, idled |-> page.idled + 500]
      [] OTHER -> page

\* the switch run once on a page, in any of the three recording modes
SwitchCall ==
    /\ call.fn = "none"
    /\ \E mode \in {"slideshow", "video", "plain"}, action \in ActionInputs,
          at \in {<<0, 0>>, <<0, 500>>} :
         call' = [fn |-> "switch", mode |-> mode, action |-> action,
                  before |-> [scroll |-> at, idled |-> 0],
                  page |-> ActionSwitch(action, [scroll |-> at, idled |-> 0])]
    /\ UNCHANGED runVars

\* -------------------------------------------------- the pages of a step
\* A location is a sequence of tokens; NoUrl stands for an absent url field.
NoUrl == <<>>

BaseUrl == <<"http://", "localhost:7777">>

\* url.startsWith('http') ? url : `${config.baseUrl}${url}` (lines 1077,
\* 1200-1203, 1140-1142, 1240-1242)
FullUrl(base, url) == IF url[1] \in {"http://", "https://"} THEN url ELSE base \o url

\* where a page is after one action of the switch: navigate goes to the
\* action's url, a click may follow a link to clickTo, the rest stays
ActionLocation(base, action, at, clickTo) ==
    CASE action.type = "navigate" -> FullUrl(base, action.url)
      [] action.type = "click" -> clickTo
      [] OTHER -> at

RECURSIVE ActionsLocation(_, _, _, _)
\* for (const action of step.actions) switch ...: where the page ends
ActionsLocation(base, actions, at, clickTo) ==
    IF actions = <<>> THEN at
    ELSE ActionsLocation(base, Tail(actions),
                         ActionLocation(base, Head(actions), at, clickTo), clickTo)

\* Mutant of MainPageAfter: the recorded actions move the main page too.
MainPageAfterShared(mode, main, ended) == ended

\* where the main page is when a step ends: the slideshow and plain loops act
\* on page (lines 1108-1156, 1306-1342), the full-video loop on videoPage
\* only (lines 1197, 1210-1249)
MainPageAfter(mode, main, ended) == IF mode = "video" THEN main ELSE ended

\* The pages of one iteration of the step loop (lines 1073-1345): the step's
\* own navigation of the main page, the page its actions start on (in
\* full-video mode a new page sent to step.url or to page.url()), where that
\* page ends and where the main page is afterwards
StepPages(base, format, step, main, clickTo) ==
    LET mode == Mode([videoFormat |-> format], step)
        main1 == IF step.url # NoUrl THEN FullUrl(base, step.url) ELSE main
        began == IF mode = "video" /\ step.url # NoUrl THEN FullUrl(base, step.url)
                 ELSE main1
        ended == ActionsLocation(base, step.actions, began, clickTo)
    IN  [mode |-> mode, began |-> began, ended |-> ended,
         main |-> MainPageAfter(mode, main1, ended)]

\* the actions that can move a page, and one that cannot
MovingActions ==
    {[type |-> "navigate", url |-> <<"/checkout">>],
     [type |-> "navigate", url |-> <<"https://", "ex.test", "/a">>],
     [type |-> "click"], [type |-> "wait"]}

PageSteps ==
    [url : {NoUrl, <<"/cart">>}, record : BOOLEAN,
     actions : SeqsUpTo(MovingActions, MaxActions)]

Locations == {BaseUrl, BaseUrl \o <<"/linked">>}

\* two consecutive iterations of the step loop, the second without a url
StepsCall ==
    /\ call.fn = "none"
    /\ \E format \in VideoFormats, first \in PageSteps, record \in BOOLEAN,
          start \in Locations, clickTo \in Locations :
         LET one == StepPages(BaseUrl, format, first, start, clickTo)
             second == [url |-> NoUrl, record |-> record, actions |-> <<>>]
             two == StepPages(BaseUrl, format, second, one.main, clickTo)
         IN  call' = [fn |-> "steps", format |-> format, start |-> start,
                      first |-> first, one |-> one, two |-> two]
    /\ UNCHANGED runVars

\* ------------------------------------------------- the specification of calls
CallInit ==
    /\ Start(<<Config("slideshow", NullText, <<>>, FALSE, FALSE, NullText), "none",
               CacheAbsent>>)
    /\ call = NoCall

CallNext ==
    \/ EnsureDirCall
    \/ MainCall
    \/ SwitchCall
    \/ StepsCall

CallSpec == CallInit /\ [][CallNext]_vars

\* ======================================================= claims on calls

SlideshowFormatPassesValidation ==
    (call.fn = "main" /\ call.parsed.status = "ok") =>
        /\ call.parsed.config.videoFormat \in {"slideshow", "webm", "gif"} =>
             call.error # "videoFormat must be either gif or webm"
        /\ (/\ call.parsed.config.videoFormat = DEFAULT_CONFIG.videoFormat
            /\ Has(call.parsed.config, "title")
            /\ Has(call.parsed.config, "steps")) => call.reached

\* C25: parseArgs applies its arguments left to right over the defaults.
\* Every field of the config it returns holds what the last assignment to
\* that field gave it, and the default when there was none; a config file
\* given last overwrites every field it has and a --format given last
\* overwrites the format, whatever came before; a --config naming a file
\* that is missing or not JSON makes parseArgs reject and return no config.
ParseArgsLeftToRight ==
    call.fn = "main" =>
        LET args == call.args
            parsed == call.parsed
            Before(i) == ParseArgs(SubSeq(args, 1, i - 1))
            Writers(k) == {n \in DOMAIN parsed.applied : k \in DOMAIN parsed.applied[n]}
            Last(k) == CHOOSE n \in Writers(k) : \A m \in Writers(k) : m <= n
        IN  /\ parsed.status = "ok" =>
                 \A k \in DOMAIN parsed.config :
                    parsed.config[k] = IF Writers(k) = {} THEN DEFAULT_CONFIG[k]
                                       ELSE parsed.applied[Last(k)][k]
            /\ \A i \in 1..(Len(args) - 1) :
                 (Before(i).status = "ok" /\ args[i] = "--config") =>
                    LET configData == ConfigFile(args[i + 1])
                    IN  IF configData.read # "ok"
                        THEN parsed.status = "rejected" /\ "config" \notin DOMAIN parsed
                        ELSE i + 1 = Len(args) =>
                               /\ parsed.status = "ok"
                               /\ \A k \in DOMAIN configData.data :
                                     parsed.config[k] = configData.data[k]
            /\ \A i \in 1..(Len(args) - 1) :
                 (/\ Before(i).status = "ok"
                  /\ args[i] = "--format"
                  /\ args[i + 1] \in {"slideshow", "webm", "gif"}
                  /\ i + 1 = Len(args)) =>
                    parsed.status = "ok" /\ parsed.config.videoFormat = args[i + 1]

\* a flag after a config file overwrites the format the file set, and the
\* file has overwritten the defaults
ParseArgsLeftToRightWitness ==
    /\ call.fn = "main"
    /\ call.args = <<"--config", "gif.json", "--format", "webm">>
    /\ call.parsed.status = "ok"
    /\ call.parsed.config.videoFormat = "webm"
    /\ call.parsed.config.title = "From file"

\* C23: a scroll action with x/y coordinates leaves the page scrolled to
\* exactly those coordinates when the switch is done with it, in every
\* recording mode.
ScrollActionMovesPage ==
    (/\ call.fn = "switch"
     /\ call.action.type = "scroll"
     /\ Has(call.action, "x")) =>
        call.page.scroll = <<call.action.x, call.action.y>>

\* C30: the settle delay is overridable per action. After a click or type
\* action the switch has idled for exactly the action's waitAfter whenever
\* one is given, 0 included, and otherwise for 500 ms after click and 300 ms
\* after type; a wait action idles for exactly its ms, or for 1000 ms when
\* none is given.
SettleDelayOverridable ==
    call.fn = "switch" =>
        LET action == call.action
            idled == call.page.idled - call.before.idled
            Given(field, otherwise) ==
                IF Has(action, field) THEN action[field] ELSE otherwise
        IN  /\ action.type = "click" => idled = Given("waitAfter", 500)
            /\ action.type = "type" => idled = Given("waitAfter", 300)
            /\ action.type = "wait" => idled = Given("ms", 1000)

\* C24: without an API credential generateAIDescription throws instead of
\* returning text, and runReview skips AI entirely: it calls neither
\* generateAIDescription nor the generation service, writes no cache file,
\* and a run whose capture phase completed still ends with the report
\* generated.
NoKeySkipsAI ==
    apiKey = "none" =>
        /\ \A outcome \in GenOutcomes :
              ~GenerateAIDescription(apiKey, Paths(artifacts), files, outcome).ok
        /\ genLog = <<>>
        /\ genCalls = 0
        /\ cacheWrites = 0
        /\ (pc = "exited" /\ CaptureCompleted) => (report.generated /\ exitCode = "0")

\* ------------------------------------------------- generateHTMLReport: body
\* the key generateHTMLReport groups an artifact under (lines 553-560); -1
\* stands for 'none'
StepKey(a) == IF a.stepIndex >= 0 THEN a.stepIndex ELSE -1

\* how many times the report body renders an artifact. A step section
\* (lines 876-954) lists the screenshots of its group and then its
\* recordings; the 'Artifacts' section (lines 957-992) lists the whole group
\* 'none'. cfg.steps is an array in every run.
RenderCount(cfg, a) ==
    IF StepKey(a) >= 0
    THEN (IF a.type = "screenshot" THEN 1 ELSE 0)
         + (IF a.type \in {"video", "gif", "slideshow"} THEN 1 ELSE 0)
    ELSE 1

\* the three numbers of the summary (lines 546-549, 860-871)
Summary(arts) ==
    [screenshots |-> Len(SelectSeq(arts, LAMBDA a : a.type = "screenshot")),
     recordings |-> Len(SelectSeq(arts, LAMBDA a : a.type \in {"video", "gif", "slideshow"})),
     total |-> Len(arts)]

\* C26: generateHTMLReport always writes <outputDir>/index.html and returns,
\* whatever it is given (an empty artifact list included); the report renders
\* every artifact exactly once, and its summary counts the screenshots, the
\* recordings and all artifacts given.
ReportRendersEveryArtifactOnce ==
    /\ error # "report"
    /\ pc \in {"returned", "exited"} /\ error = "none" =>
         /\ report.generated
         /\ report.artifacts = artifacts
         /\ ReportPath(config) \in files
         /\ \A i \in DOMAIN artifacts : RenderCount(config, artifacts[i]) = 1
         /\ Summary(report.artifacts).total = Len(artifacts)
         /\ Summary(report.artifacts).screenshots + Summary(report.artifacts).recordings
              = Len(artifacts)

\* C27 (as claimed): the recording context is open only while the actions of
\* its full-video step run: it has been closed whenever the step has been
\* left, by completion or by an exception.
RecordingContextClosedAtStepExit ==
    videoContext = "open" =>
        /\ pc = "actions"
        /\ stepIndex < Len(config.steps)
        /\ Mode(config, Step) = "video"

\* C27 (amended): the recording context is open only inside a full-video
\* step, where every action runs on its page, or on the way out of that step
\* after its navigation or one of its actions raised; it is never open when a
\* step begins, so at most one is open at a time, and never past the cleanup
\* block, which closes it with the browser.
RecordingContextScoped ==
    /\ videoContext = "open" =>
         /\ pc \in {"actions", "finally"}
         /\ stepIndex < Len(config.steps)
         /\ Mode(config, Step) = "video"
         /\ pc = "finally" => error \in {"modeNav", "action"}
    /\ pc = "stepLoop" => videoContext # "open"
    /\ AfterFinally => videoContext # "open"

\* a second step begins after a full-video step ran an action and closed its
\* recording context
RecordingContextScopedWitness ==
    /\ pc = "stepLoop"
    /\ stepIndex = 1
    /\ Len(config.steps) = 2
    /\ Mode(config, config.steps[1]) = "video"
    /\ \E i \in DOMAIN log : log[i].k = "action"
    /\ videoContext = "closed"

\* what the end of a slideshow step removes from disk are numbered frames of
\* that step, and the files of its explicit screenshots are there afterwards
CleanupStep ==
    (/\ pc = "actions"
     /\ pc' = "stepLoop"
     /\ Mode(config, Step) = "slideshow") =>
        /\ files \ files' \subseteq FrameFiles(stepIndex)
        /\ \A i \in DOMAIN Step.actions :
              Step.actions[i].type = "screenshot" =>
                 ScreenshotPath(config, Step.actions[i]) \in files'

\* C28: the slideshow cleanup deletes exactly the auto-captured numbered
\* frames of the current step and nothing else: every file written by an
\* explicit screenshot action survives it, whatever the screenshot's name.
SlideCleanupDeletesOnlyFrames == [][CleanupStep]_vars

\* the frame sequence of a slideshow step after its first n actions: it
\* starts with frame 000, its numbered frames are 000..n in order, and frame
\* i comes right after the explicit screenshot of action i, or right after
\* frame i-1 when action i is of any other type
FramesInOrder(shots, step, n) ==
    LET Frame(i) == SlidePath(config, step, i)
        IsFrame(p) == \E i \in 0..n : p = Frame(i)
        At(i) == CHOOSE j \in DOMAIN shots : shots[j] = Frame(i)
    IN  /\ Len(shots) = 1 + n + Cardinality({i \in 1..n : step.actions[i].type = "screenshot"})
        /\ shots[1] = Frame(0)
        /\ SelectSeq(shots, IsFrame) = [i \in 1..(n + 1) |-> Frame(i - 1)]
        /\ \A i \in 1..n :
              IF step.actions[i].type = "screenshot"
              THEN /\ shots[At(i) - 1] = ScreenshotPath(config, step.actions[i])
                   /\ At(i) - 2 = At(i - 1)
              ELSE At(i) - 1 = At(i - 1)

\* C29: in slideshow mode the sequence handed to the transcoder begins with
\* the initial frame and holds one numbered frame after every action,
\* whatever its type, in execution order, numbered 000 to the number of
\* actions; the slideshow artifact's frameCount is the length of that sequence.
SlideshowFramesAfterEveryAction ==
    /\ (/\ pc = "actions"
        /\ Mode(config, Step) = "slideshow") =>
          FramesInOrder(slideshowScreenshots, Step, actionIndex - 1)
    /\ \A i \in DOMAIN artifacts :
          artifacts[i].type = "slideshow" =>
             LET step == config.steps[artifacts[i].stepIndex + 1]
                 n == Len(step.actions)
             IN  /\ artifacts[i].frameCount
                      = 1 + n + Cardinality({j \in 1..n : step.actions[j].type = "screenshot"})
                 /\ (pc = "stepLoop" /\ stepIndex = artifacts[i].stepIndex + 1) =>
                       /\ artifacts[i].frameCount = Len(slideshowScreenshots)
                       /\ FramesInOrder(slideshowScreenshots, step, n)

\* a slideshow was assembled from the frames of a step whose first action is
\* no screenshot: frames 000 and 001, the explicit screenshot, frame 002
SlideshowFramesWitness ==
    /\ pc = "stepLoop"
    /\ stepIndex = 1
    /\ Len(config.steps[1].actions) = 2
    /\ config.steps[1].actions[1].type # "screenshot"
    /\ config.steps[1].actions[2].type = "screenshot"
    /\ Len(slideshowScreenshots) = 4
    /\ \E i \in DOMAIN artifacts :
          artifacts[i].type = "slideshow" /\ artifacts[i].frameCount = 4

\* ============================================== claims on runs, continued

\* C31: every screenshot action captures to its own file and appends exactly
\* one artifact tagged with the owning step index: the screenshot artifacts
\* of a step are as many as the screenshot actions it has executed, and no
\* two artifact records of a run share a path.
ScreenshotFilesUnique ==
    /\ \A i \in DOMAIN log :
          (log[i].k = "post" /\ error = "none") =>
             CountOf(log[i].s, "screenshot") = Len(ShotActions(config.steps[log[i].s + 1]))
    /\ \A i, j \in DOMAIN artifacts :
          i # j => artifacts[i].path # artifacts[j].path

\* the frame cleanup removes extracted frames only
CleanupRemovesFramesOnly ==
    pc = "cleanup" =>
        files \ files' \subseteq {extractedFrames[i].path : i \in DOMAIN extractedFrames}

FailurePathStep ==
    (error' \in CapturePhaseErrors /\ pc' \in {"finally", "thrown", "exited"})
        => files \subseteq files'

StepsReplaceSingleUrl ==
    (config.url # NullText /\ config.steps # <<>>) =>
        /\ \A j \in DOMAIN artifacts : artifacts[j].stepIndex # -1
        /\ ReviewScreenshotPath(config) \notin files
        /\ error \notin {"goto", "screenshot"}


\* C35: the file selected as a recorded step's video is the one written by
\* that step's own recording context: it is never the main context's
\* recording nor the video of another step, so no two video artifacts point
\* at the same file, none points at the main context's recording, and the
\* video a GIF conversion deletes is never one that an artifact refers to.
StepVideoIsOwnRecording ==
    /\ \A i, j \in DOMAIN artifacts :
          (i # j /\ artifacts[i].type = "video" /\ artifacts[j].type = "video")
             => artifacts[i].path # artifacts[j].path
    /\ \A j \in DOMAIN artifacts :
          (artifacts[j].type = "video" /\ mainVideo # "none")
             => artifacts[j].path # VideoFile(config, mainVideo)
    /\ \A j \in DOMAIN artifacts :
          (artifacts[j].type = "video" /\ config.videoFormat = "gif")
             => artifacts[j].path \in files


\* the generation pass of this run has run to completion
GenerationPassDone ==
    /\ pc \in {"cleanup", "report", "returned"}
    /\ apiKey # "none"
    /\ ShouldGenerate(config, IF config.forceAI THEN NoDescriptions
                              ELSE LoadCachedDescriptions(cacheAtStart))

\* what a following run without forceAI on the same directory decides after
\* loading the file: whether its generation pass runs
NextRunGenerates ==
    ShouldGenerate([config EXCEPT !.forceAI = FALSE], LoadCachedDescriptions(cacheFile))

EntriesFollowSteps(d, n) ==
    /\ d["steps"].array
    /\ Len(d["steps"].items) = n
    /\ \A i \in 1..n :
          /\ d["steps"].items[i].stepIndex = i - 1
          /\ d["steps"].items[i].stepName = config.steps[i].name

\* C37: a generation pass yields exactly one step entry per configured step,
\* in configuration order and with stepIndex equal to the step's position,
\* whether the step had images, a manual description or a failed call; while
\* the pass is at step k the bundle holds the entries of the steps before k.
OneEntryPerConfiguredStep ==
    /\ pc = "genSteps" => EntriesFollowSteps(descriptions, genIndex)
    /\ (pc = "saveCache" \/ GenerationPassDone) =>
          EntriesFollowSteps(descriptions, Len(config.steps))

OneEntryPerStepWitness ==
    /\ GenerationPassDone /\ pc = "returned"
    /\ Len(config.steps) = MaxSteps
    /\ EntriesFollowSteps(descriptions, MaxSteps)
    /\ config.steps[1].description # NullText
    /\ config.steps[1].actions = <<>>
    /\ descriptions["steps"].items[2].description = NullText
    /\ \E i \in DOMAIN genLog : genLog[i].target = 1 /\ ~genLog[i].ok


\* C38: the actions of a step recorded in full-video mode run on the
\* recording page only: the main page stays where the step's own navigation
\* (or the earlier steps) left it, and a following step without a url starts
\* from there, not from where the recorded actions ended.
RecordedActionsLeaveMainPage ==
    (call.fn = "steps" /\ call.one.mode = "video") =>
        /\ call.one.main = IF call.first.url # NoUrl
                           THEN FullUrl(BaseUrl, call.first.url) ELSE call.start
        /\ call.one.began = call.one.main
        /\ call.two.began = call.one.main
        /\ call.two.main = call.one.main

RecordedActionsWitness ==
    /\ call.fn = "steps" /\ call.one.mode = "video"
    /\ call.first.url = NoUrl
    /\ Len(call.first.actions) = MaxActions
    /\ call.one.ended # call.one.began
    /\ call.two.mode = "video"
    /\ call.two.began = call.start


\* C39: with useAI false a run extracts no frame, makes no generation call
\* and never writes the cache file; unless forceAI is set, a cache file that
\* is present and parses is still loaded, and a run whose capture succeeded
\* produces the report with the descriptions of that file.
NoAIRunShowsCache ==
    ~config.useAI =>
        /\ extractedFrames = <<>>
        /\ genCalls = 0 /\ genLog = <<>>
        /\ cacheWrites = 0 /\ cacheFile = cacheAtStart
        /\ (/\ ~config.forceAI /\ cacheAtStart.state = "json"
            /\ pc \in {"returned", "thrown", "exited"}
            /\ error \notin CapturePhaseErrors) =>
               /\ cacheLoads = 1
               /\ report.generated
               /\ report.descriptions = cacheAtStart.data


\* ====================================================== the password gate
\* middleware.js and api/verify-password.js.  The state of the gate is kept
\* in call: the SITE_PASSWORD of the deployment, the cookies the client sends,
\* whether the endpoint has ever accepted a password from it, and the last
\* answer it got.

\* the values SITE_PASSWORD can have; "" stands for unset or empty
SitePasswords == {"", "s3cret"}

\* process.env.SITE_PASSWORD || 'password'
ExpectedPassword(env) == IF env = "" THEN "password" ELSE env

\* what a client can send as req.body.password; "none" is a request without body
Passwords == {"password", "s3cret", "guess", "none"}

\* handler of api/verify-password.js (lines 6-19): the status it answers
\* with; destructuring an absent body throws, which the platform turns into 500
VerifyPassword(method, password, env) ==
    IF method # "POST" THEN 405
    ELSE IF password = "none" THEN 500
    ELSE IF password = ExpectedPassword(env) THEN 200
    ELSE 401

\* the cookie the prompt page sets after an accepted password (line 154)
AuthCookie == <<"browser-review-auth", "=", "true">>

\* cookies a client can hold; the Cookie header is whatever the client sends
CookiePool ==
    {AuthCookie, <<"browser-review-auth", "=", "false">>,
     <<"x-", "browser-review-auth", "=", "true", "1">>, <<"theme", "=", "dark">>}

\* String.prototype.includes on token sequences
Includes(s, t) ==
    \E i \in 0..(Len(s) - Len(t)) : SubSeq(s, i + 1, i + Len(t)) = t

\* cookie.includes('browser-review-auth=true') (lines 27-28)
IsAuthenticated(jar) == \E c \in jar : Includes(c, AuthCookie)

\* the request paths: the report, an API route, a static file
RequestPaths ==
    {<<"/">>, <<"/", "index", ".html">>, <<"/", "api", "/verify-password">>,
     <<"/", "artifacts/", "home", ".png">>}

\* config.matcher (lines 6-18): every path but those starting with api,
\* _next/static, _next/image, favicon.ico or holding a static file extension
Matcher(path) ==
    /\ ~(Len(path) >= 2 /\ path[2] \in {"api", "_next/static", "_next/image", "favicon.ico"})
    /\ ~(\E i \in DOMAIN path : path[i] \in {".svg", ".png", ".jpg", ".css", ".js"})

\* middleware (lines 20-36, 171-177): nothing returned for an authenticated
\* request, else the prompt page with status 401
Middleware(jar) == IF IsAuthenticated(jar) THEN 0 ELSE 401

GateAnswer(from, path, status) == [from |-> from, path |-> path, status |-> status]

Gate(env, jar, accepted, last) ==
    [fn |-> "gate", env |-> env, jar |-> jar, accepted |-> accepted, last |-> last]

\* a request for a path: the middleware runs on the matched ones
Request ==
    /\ call.fn = "gate"
    /\ \E path \in RequestPaths :
         call' = [call EXCEPT !.last =
                     IF Matcher(path)
                     THEN GateAnswer("middleware", path, Middleware(call.jar))
                     ELSE GateAnswer("origin", path, 0)]
    /\ UNCHANGED runVars

\* any request to /api/verify-password
VerifyRequest ==
    /\ call.fn = "gate"
    /\ \E method \in {"GET", "POST"}, password \in Passwords :
         LET status == VerifyPassword(method, password, call.env)
         IN  call' = [call EXCEPT
                        !.accepted = @ \/ status = 200,
                        !.last = GateAnswer("endpoint", <<"/", "api", "/verify-password">>,
                                            status)]
    /\ UNCHANGED runVars

\* the submit handler of the prompt page (lines 141-166): POST the typed
\* password, and on response.ok set the cookie in the browser
PromptSubmit ==
    /\ call.fn = "gate"
    /\ call.last.from = "middleware" /\ call.last.status = 401
    /\ \E password \in Passwords \ {"none"} :
         LET status == VerifyPassword("POST", password, call.env)
         IN  call' = [call EXCEPT
                        !.accepted = @ \/ status = 200,
                        !.jar = IF status = 200 THEN @ \cup {AuthCookie} ELSE @,
                        !.last = GateAnswer("endpoint", <<"/", "api", "/verify-password">>,
                                            status)]
    /\ UNCHANGED runVars

\* the client changes the cookies it sends: request headers are its own
ClientSetsCookie ==
    /\ call.fn = "gate"
    /\ \E c \in CookiePool :
         call' = [call EXCEPT !.jar = IF c \in @ THEN @ \ {c} ELSE @ \cup {c}]
    /\ UNCHANGED runVars

GateInit ==
    /\ Start(<<Config("slideshow", NullText, <<>>, FALSE, FALSE, NullText), "none",
               CacheAbsent>>)
    /\ \E env \in SitePasswords :
         call = Gate(env, {}, FALSE, GateAnswer("none", <<>>, 0))

GateNext ==
    \/ Request
    \/ VerifyRequest
    \/ PromptSubmit
    \/ ClientSetsCookie

GateSpec == GateInit /\ [][GateNext]_vars

\* C40: a matched request passes the middleware only if the endpoint has
\* before accepted the configured password from the client, every matched
\* request without that gets the 401 prompt, and the endpoint answers 200
\* only to a POST whose password is the configured one.
PasswordGateProtocol ==
    call.fn = "gate" =>
        /\ (call.last.from = "middleware" /\ call.last.status = 0) => call.accepted
        /\ (call.last.from = "middleware" /\ ~call.accepted) => call.last.status = 401
        /\ (call.last.from = "endpoint" /\ call.last.status = 200) => call.accepted

====
